---- MODULE Spec2Model ----
(***************************************************************************)
(* A model of the response parser of the GSM AT library                    *)
(* (src/src/gsm/gsm_parser.c): the primitive tokenizers, the memory        *)
(* tokenizers, the line parsers and the byte-by-byte +COPS scanner.        *)
(*                                                                         *)
(* A C string is a sequence of one-character strings; a cursor is a        *)
(* 1-based index into it, Len(s)+1 being the position of the terminating   *)
(* NUL.  An unsigned bit mask is the set of the positions of its set bits. *)
(***************************************************************************)
EXTENDS Integers, Sequences, FiniteSets, TLC

VARIABLES
    u,      \* gsmi_parse_cops_scan: the static scanner state u.f
    msg,    \* gsm.msg->msg.cops_scan: ops, opsi, opsl, opf
    feed,   \* the bytes the transport still has to deliver to the scanner
    nfed,   \* number of bytes delivered to the scanner so far
    last,   \* the byte delivered last since the last reset (NUL: none)
    call,   \* a tokenizer invocation: the function and its arguments
    ret,    \* what that invocation returned and wrote
    pc,     \* where the driver stands: "start", "scan", "call", "done", "line"
    sent,   \* the operator records the modem reports in its +COPS response
    gsm,    \* the device state: sim_state, and the event payload gsm.cb
    evt,    \* the collaborator calls made by the most recent line parser call
    line,   \* the most recent line handed to a line parser
    sms,    \* gsm.sms: enabled, and the memory mask mem[0].mem_available
    lock,   \* the core lock: the thread that holds it, 0 when it is free
    mbox,   \* the producer mailbox: the command messages submitted to it
    thr     \* the SMS API call each application thread is in

vars ==
    <<u, msg, feed, nfed, last, sent, call, ret, pc, gsm, evt, line,
      sms, lock, mbox, thr>>

----------------------------------------------------------------------------
(* Characters and C strings *)

DQ == "\""
CR == "\r"
LF == "\n"
NUL == "NUL"
OOB == "OOB"

\* *p for a cursor p into the terminated string s
At(s, p) ==
    IF p >= 1 /\ p <= Len(s) THEN s[p]
    ELSE IF p = Len(s) + 1 THEN NUL
    ELSE OOB

\* the text of s from cursor p to the terminator
From(s, p) == SubSeq(s, p, Len(s))

Take(s, n) == SubSeq(s, 1, IF n < Len(s) THEN n ELSE Len(s))

\* all sequences over S of length lo..hi
SeqsOf(S, lo, hi) == UNION {[1..n -> S] : n \in lo..hi}

----------------------------------------------------------------------------
(* int32_t arithmetic, scaled to IntBits bits *)

IntBits == 8

INT_MAX == 2^(IntBits - 1) - 1
INT_MIN == -(2^(IntBits - 1))
IntRange == INT_MIN..INT_MAX

Wrap(v) == ((v - INT_MIN) % 2^IntBits) + INT_MIN

GSM_CHARISNUM(x) == x \in {"0", "1", "2", "3", "4", "5", "6", "7", "8", "9"}

GSM_CHARTONUM(x) ==
    CASE x = "0" -> 0 [] x = "1" -> 1 [] x = "2" -> 2 [] x = "3" -> 3
      [] x = "4" -> 4 [] x = "5" -> 5 [] x = "6" -> 6 [] x = "7" -> 7
      [] x = "8" -> 8 [] x = "9" -> 9

----------------------------------------------------------------------------
(* gsmi_parse_number *)

\* while (GSM_CHARISNUM(*p)) { val = val * 10 + GSM_CHARTONUM(*p); p++; }
\* ovf records that the signed accumulation left the range of int32_t,
\* which is undefined behaviour.
RECURSIVE NumberLoop(_, _, _, _)
NumberLoop(s, p, val, ovf) ==
    IF GSM_CHARISNUM(At(s, p))
    THEN LET v == val * 10 + GSM_CHARTONUM(At(s, p))
         IN  NumberLoop(s, p + 1, Wrap(v), ovf \/ v > INT_MAX \/ v < INT_MIN)
    ELSE [val |-> val, p |-> p, ovf |-> ovf]

gsmi_parse_number(s, p0) ==
    LET p1 == IF At(s, p0) = DQ THEN p0 + 1 ELSE p0
        p2 == IF At(s, p1) = "," THEN p1 + 1 ELSE p1
        p3 == IF At(s, p2) = DQ THEN p2 + 1 ELSE p2
        minus == At(s, p3) = "-"
        p4 == IF minus THEN p3 + 1 ELSE p3
        r == NumberLoop(s, p4, 0, FALSE)
        p5 == IF At(s, r.p) = "," THEN r.p + 1 ELSE r.p
    IN  [val |-> IF minus THEN Wrap(-r.val) ELSE r.val,
         p |-> p5,
         ovf |-> r.ovf \/ (minus /\ r.val = INT_MIN)]

----------------------------------------------------------------------------
(* gsmi_parse_string *)

\* a loop that stops at a full destination whatever trim says
string_breaks_always(trim) == TRUE

\* } else if (!trim) { break; }
string_breaks_when_full(trim) == ~trim

\* The while (*p) loop.  dst is the text copied so far (i = Len(dst)),
\* n is dst_len after the decrement that reserves the terminator.
RECURSIVE StringLoop(_, _, _, _, _, _)
StringLoop(s, p, dst, n, dst_null, trim) ==
    IF At(s, p) = NUL THEN [p |-> p, dst |-> dst]
    ELSE IF At(s, p) = DQ /\ At(s, p + 1) \in {",", CR, LF}
    THEN [p |-> p + 1, dst |-> dst]
    ELSE IF ~dst_null /\ Len(dst) < n
    THEN StringLoop(s, p + 1, Append(dst, At(s, p)), n, dst_null, trim)
    ELSE IF ~dst_null /\ string_breaks_when_full(trim)
    THEN [p |-> p, dst |-> dst]
    ELSE StringLoop(s, p + 1, dst, n, dst_null, trim)

\* dst: the terminated text left in the destination; nwr: the bytes written
\* to it, terminator included (the terminator goes to offset Len(dst)).
gsmi_parse_string(s, p0, dst_null, dst_len, trim) ==
    LET p1 == IF At(s, p0) = "," THEN p0 + 1 ELSE p0
        p2 == IF At(s, p1) = DQ THEN p1 + 1 ELSE p1
        n == IF dst_len > 0 THEN dst_len - 1 ELSE 0
        r == StringLoop(s, p2, <<>>, n, dst_null, trim)
    IN  [res |-> 1,
         p |-> r.p,
         dst |-> r.dst,
         nwr |-> IF dst_null THEN 0 ELSE Len(r.dst) + 1]

----------------------------------------------------------------------------
(* strncmp and the memory tokenizers *)

\* strncmp(s + p, lit, n) == 0: the first n characters agree, or the strings
\* agree up to and including a terminator met earlier.
RECURSIVE StrNEq(_, _, _, _, _)
StrNEq(s, p, lit, k, n) ==
    IF k > n THEN TRUE
    ELSE LET a == At(s, p + k - 1)
             b == At(lit, k)
         IN  IF a # b THEN FALSE
             ELSE IF a = NUL THEN TRUE
             ELSE StrNEq(s, p, lit, k + 1, n)

strncmp_eq(s, p, lit, n) == StrNEq(s, p, lit, 1, n)

GSM_MEM_UNKNOWN == 31

\* a scan that goes on to the last entry that matches
MemoryScanLast(map, s, p, i) ==
    LET M == {j \in i..Len(map) : strncmp_eq(s, p, map[j].mem_str, Len(map[j].mem_str))}
    IN  IF M = {} THEN 0 ELSE CHOOSE j \in M : \A k \in M : k <= j

\* for (i = 0; i < gsm_dev_mem_map_size; i++): index of the first entry whose
\* name is a prefix of the text at p, 0 when the loop ends without a match
RECURSIVE MemoryScan(_, _, _, _)
MemoryScan(map, s, p, i) ==
    IF i > Len(map) THEN 0
    ELSE IF strncmp_eq(s, p, map[i].mem_str, Len(map[i].mem_str)) THEN i
    ELSE MemoryScan(map, s, p, i + 1)

\* an end of gsmi_parse_memory that leaves the closing quote
memory_keep_quote(s, p) == p

\* if (*s == '"') s++;  at the end of gsmi_parse_memory
memory_skip_quote(s, p) == IF At(s, p) = DQ THEN p + 1 ELSE p

gsmi_parse_memory(map, s, p0) ==
    LET p1 == IF At(s, p0) = "," THEN p0 + 1 ELSE p0
        p2 == IF At(s, p1) = DQ THEN p1 + 1 ELSE p1
        i == MemoryScan(map, s, p2, 1)
        mem == IF i = 0 THEN GSM_MEM_UNKNOWN ELSE map[i].mem
        p3 == IF i = 0 THEN p2 ELSE p2 + Len(map[i].mem_str)
        p4 == IF mem = GSM_MEM_UNKNOWN
              THEN gsmi_parse_string(s, p3, TRUE, 0, TRUE).p
              ELSE p3
    IN  [mem |-> mem, p |-> memory_skip_quote(s, p4)]

\* *mem_dst |= GSM_U32(1 << GSM_U32(mem))
memories_set_bit(mem_dst, mem) == mem_dst \cup {mem}

\* do { ... } while (*str && *str != ')')
RECURSIVE MemoriesLoop(_, _, _, _)
MemoriesLoop(map, s, p, mem_dst) ==
    LET r == gsmi_parse_memory(map, s, p)
        m == memories_set_bit(mem_dst, r.mem)
    IN  IF At(s, r.p) # NUL /\ At(s, r.p) # ")"
        THEN MemoriesLoop(map, s, r.p, m)
        ELSE [p |-> r.p, mem_dst |-> m]

\* a start that keeps what *mem_dst held
memories_keep(mem0) == mem0

\* *mem_dst = 0
memories_clear(mem0) == {}

\* mem0 is the content of *mem_dst on entry
gsmi_parse_memories_string(map, s, p0, mem0) ==
    LET cleared == memories_clear(mem0)
        p1 == IF At(s, p0) = "," THEN p0 + 1 ELSE p0
        p2 == IF At(s, p1) = "(" THEN p1 + 1 ELSE p1
        r == MemoriesLoop(map, s, p2, cleared)
        p3 == IF At(s, r.p) = ")" THEN r.p + 1 ELSE r.p
    IN  [res |-> 1, p |-> p3, mem_dst |-> r.mem_dst]

----------------------------------------------------------------------------
(* gsmi_parse_sms_status *)

REC_UNREAD == <<"R", "E", "C", " ", "U", "N", "R", "E", "A", "D">>
REC_READ == <<"R", "E", "C", " ", "R", "E", "A", "D">>
STO_UNSENT == <<"S", "T", "O", " ", "U", "N", "S", "E", "N", "T">>
REC_SENT == <<"R", "E", "C", " ", "S", "E", "N", "T">>

\* char t[11]
SmsStatusBufLen == 11

\* the chain of strcmp(t, ...) comparisons
sms_status_of(t) ==
    IF t = REC_UNREAD THEN "GSM_SMS_STATUS_UNREAD"
    ELSE IF t = REC_READ THEN "GSM_SMS_STATUS_READ"
    ELSE IF t = STO_UNSENT THEN "GSM_SMS_STATUS_UNSENT"
    ELSE IF t = REC_SENT THEN "GSM_SMS_STATUS_SENT"
    ELSE "GSM_SMS_STATUS_ALL"

\* stat0 is the content of *stat on entry
gsmi_parse_sms_status(s, p0, stat0) ==
    LET r == gsmi_parse_string(s, p0, FALSE, SmsStatusBufLen, TRUE)
        st == sms_status_of(r.dst)
    IN  IF st # "GSM_SMS_STATUS_ALL"
        THEN [res |-> 1, p |-> r.p, stat |-> st]
        ELSE [res |-> 0, p |-> r.p, stat |-> stat0]

----------------------------------------------------------------------------
(* gsmi_parse_cpin *)

READY == <<"R", "E", "A", "D", "Y">>
NOT_READY == <<"N", "O", "T", " ", "R", "E", "A", "D", "Y">>
NOT_INSERTED == <<"N", "O", "T", " ", "I", "N", "S", "E", "R", "T", "E", "D">>
SIM_PIN == <<"S", "I", "M", " ", "P", "I", "N">>
PIN_PUK == <<"P", "I", "N", " ", "P", "U", "K">>

SimStates == {"GSM_SIM_STATE_READY", "GSM_SIM_STATE_NOT_READY",
              "GSM_SIM_STATE_NOT_INSERTED", "GSM_SIM_STATE_PIN",
              "GSM_SIM_STATE_PUK"}

\* if (*str == '+') { str += 7; }
skip_prefix(s) == IF At(s, 1) = "+" THEN 8 ELSE 1

\* the third argument of strncmp(str, "NOT INSERTED", 14)
NotInsertedCmpLen == 14

\* the if / else if chain over the literal phrases
cpin_state(s, p) ==
    IF strncmp_eq(s, p, READY, 5) THEN "GSM_SIM_STATE_READY"
    ELSE IF strncmp_eq(s, p, NOT_READY, 9) THEN "GSM_SIM_STATE_NOT_READY"
    ELSE IF strncmp_eq(s, p, NOT_INSERTED, NotInsertedCmpLen)
    THEN "GSM_SIM_STATE_NOT_INSERTED"
    ELSE IF strncmp_eq(s, p, SIM_PIN, 7) THEN "GSM_SIM_STATE_PIN"
    ELSE IF strncmp_eq(s, p, PIN_PUK, 7) THEN "GSM_SIM_STATE_PUK"
    ELSE "GSM_SIM_STATE_NOT_READY"

\* a fetch on every line
cpin_fetches_always(sim_state) == TRUE

\* if (gsm.sim_state == GSM_SIM_STATE_READY) { gsmi_get_sim_info(0); }
cpin_fetches(sim_state) == sim_state = "GSM_SIM_STATE_READY"

\* gsm.cb.cb is a union: it holds the payload member written last
CbCpin(state) == [kind |-> "cpin", state |-> state]
CbCallChanged == [kind |-> "call_changed", call |-> "&gsm.call"]
CbSmsSent(num) == [kind |-> "sms_sent", num |-> num]
CbSmsRecv(mem, pos) == [kind |-> "sms_recv", mem |-> mem, pos |-> pos]

\* A collaborator call, with the device state it could observe when called.
Called(fn, type, g) ==
    [fn |-> fn, type |-> type, sim_state |-> g.sim_state, call |-> g.call,
     cb |-> g.cb]

\* g is the device state on entry; the result holds the device state on
\* return and the collaborator calls made, in order.
gsmi_parse_cpin(g, s, send_evt) ==
    LET p == skip_prefix(s)
        g1 == [g EXCEPT !.sim_state = cpin_state(s, p)]
        e1 == IF cpin_fetches(g1.sim_state)
              THEN <<Called("gsmi_get_sim_info", "none", g1)>>
              ELSE <<>>
        g2 == IF send_evt
              THEN [g1 EXCEPT !.cb = CbCpin(g1.sim_state)]
              ELSE g1
        e2 == IF send_evt
              THEN <<Called("gsmi_send_cb", "GSM_CB_CPIN", g2)>>
              ELSE <<>>
    IN  [res |-> 1, gsm |-> g2, evt |-> e1 \o e2]

----------------------------------------------------------------------------
(* gsmi_parse_cops_scan *)

\* sizeof(long_name) and sizeof(short_name) of gsm_operator_t, scaled down
LongNameSize == 4
ShortNameSize == 3

\* size_t and uint32_t arithmetic, scaled to UIntBits bits
UIntBits == 24

U32(v) == v % 2^UIntBits

\* ch - '0' for the characters the model feeds
ChMinusZero(ch) ==
    CASE ch = "0" -> 0 [] ch = "1" -> 1 [] ch = "2" -> 2 [] ch = "7" -> 7
      [] ch = "A" -> 17 [] ch = "B" -> 18 [] ch = "L" -> 28 [] ch = "O" -> 31
      [] ch = "S" -> 35 [] ch = "g" -> 55 [] ch = "n" -> 62 [] ch = "o" -> 63
      [] ch = " " -> -16 [] ch = "(" -> -8

\* a char array of n bytes, all zero
ZeroBuf(n) == [k \in 1..n |-> NUL]

\* the terminated string held by a char array
RECURSIVE CStrFrom(_, _)
CStrFrom(buf, k) ==
    IF k > Len(buf) \/ buf[k] = NUL THEN <<>>
    ELSE <<buf[k]>> \o CStrFrom(buf, k + 1)

CStr(buf) == CStrFrom(buf, 1)

\* a reset that forgets the memset and clears ch_prev only
cops_reset_partial(uu) == [uu EXCEPT !.ch_prev = NUL]

\* a reset that leaves the stop latch as it was
cops_reset_keeps_latch(uu) ==
    [bo |-> 0, ccd |-> uu.ccd, tn |-> 0, tp |-> 0, ch_prev |-> NUL]

\* memset(&u, 0x00, sizeof(u)); u.f.ch_prev = 0;
cops_reset(uu) == [bo |-> 0, ccd |-> 0, tn |-> 0, tp |-> 0, ch_prev |-> NUL]

\* the guard without its array-full half
cops_ignores_latch_only(uu, m) == uu.ccd = 1

\* if (u.f.ccd || opsi >= opsl) { return 1; }
cops_ignores(uu, m) == uu.ccd = 1 \/ m.opsi >= m.opsl

\* u.f.tn++ on the two-bit field tn
cops_next_term(tn) == (tn + 1) % 4

\* a guard that forgets the byte of the terminator
cops_name_fits_all(tp, size) == tp < size

\* name[u.f.tp++] = ch; name[u.f.tp] = 0;  guarded by tp < sizeof(name) - 1
\* (tp is 0-based, the array is indexed from 1)
cops_name_fits(tp, size) == tp < size - 1

cops_append(buf, tp, ch) == [buf EXCEPT ![tp + 1] = ch, ![tp + 2] = NUL]

\* the switch (u.f.tn) on a data character: the entry and tp afterwards
cops_store(e, tn, tp, ch) ==
    CASE tn = 0 -> [e |-> [e EXCEPT !.stat = U32(10 * e.stat + ChMinusZero(ch))],
                    tp |-> tp]
      [] tn = 1 -> IF cops_name_fits(tp, LongNameSize)
                   THEN [e |-> [e EXCEPT
                                  !.long_name = cops_append(e.long_name, tp, ch)],
                         tp |-> tp + 1]
                   ELSE [e |-> e, tp |-> tp]
      [] tn = 2 -> IF cops_name_fits(tp, ShortNameSize)
                   THEN [e |-> [e EXCEPT
                                  !.short_name = cops_append(e.short_name, tp, ch)],
                         tp |-> tp + 1]
                   ELSE [e |-> e, tp |-> tp]
      [] tn = 3 -> [e |-> [e EXCEPT !.num = U32(10 * e.num + ChMinusZero(ch))],
                    tp |-> tp]

\* the ')' branch: close the record and report the count through opf
cops_close(uu, m) ==
    [u |-> [uu EXCEPT !.bo = 0, !.tn = 0, !.tp = 0],
     msg |-> [m EXCEPT !.opsi = m.opsi + 1,
                       !.opf = IF m.opf_null THEN m.opf ELSE m.opsi + 1]]

\* the branch without the comma-comma latch
cops_outside_no_latch(uu, ch) == IF ch = "(" THEN [uu EXCEPT !.bo = 1] ELSE uu

\* the else branch of if (u.f.bo): outside a record
cops_outside(uu, ch) ==
    IF ch = "(" THEN [uu EXCEPT !.bo = 1]
    ELSE IF ch = "," /\ uu.ch_prev = "," THEN [uu EXCEPT !.ccd = 1]
    ELSE uu

\* the if (u.f.bo) branch: inside a record
cops_inside(uu, m, ch) ==
    IF ch = ")" THEN cops_close(uu, m)
    ELSE IF ch = ","
    THEN [u |-> [uu EXCEPT !.tn = cops_next_term(uu.tn), !.tp = 0], msg |-> m]
    ELSE IF ch # DQ
    THEN LET r == cops_store(m.ops[m.opsi], uu.tn, uu.tp, ch)
         IN  [u |-> [uu EXCEPT !.tp = r.tp],
              msg |-> [m EXCEPT !.ops[m.opsi] = r.e]]
    ELSE [u |-> uu, msg |-> m]

\* one call: the scanner state and the command message afterwards
gsmi_parse_cops_scan(uu, m, ch, reset) ==
    IF reset THEN [u |-> cops_reset(uu), msg |-> m]
    ELSE IF cops_ignores(uu, m) THEN [u |-> uu, msg |-> m]
    ELSE LET r == IF uu.bo = 1 THEN cops_inside(uu, m, ch)
                  ELSE [u |-> cops_outside(uu, ch), msg |-> m]
         IN  [u |-> [r.u EXCEPT !.ch_prev = ch], msg |-> r.msg]

----------------------------------------------------------------------------
(* gsmi_parse_clcc, gsmi_parse_cmgs, gsmi_parse_cmti *)

\* sizeof(gsm.call.number) and sizeof(gsm.call.name), scaled down
CallNumberSize == 4
CallNameSize == 3

\* uint16_t, scaled to U16Bits bits
U16Bits == 4

U16(v) == v % 2^U16Bits

\* the values a call of gsmi_parse_number may return: any int32_t after a
\* signed overflow
NumberVals(r) == IF r.ovf THEN IntRange ELSE {r.val}

\* a copy that leaves the terminator out
StoreStringUnterminated(buf, r) ==
    [k \in 1..Len(buf) |-> IF k <= Len(r.dst) THEN r.dst[k] ELSE buf[k]]

\* what gsmi_parse_string leaves in the char array buf it was given: the
\* text, the terminator, and behind it the bytes the array held before
StoreString(buf, r) ==
    [k \in 1..Len(buf) |->
        IF k <= Len(r.dst) THEN r.dst[k]
        ELSE IF k = Len(r.dst) + 1 THEN NUL
        ELSE buf[k]]

\* the device state and the collaborator calls after the if (send_evt)
\* block of gsmi_parse_clcc
clcc_finish(g, send_evt) ==
    LET g1 == IF send_evt THEN [g EXCEPT !.cb = CbCallChanged] ELSE g
    IN  [res |-> 1, gsm |-> g1,
         evt |-> IF send_evt
                 THEN <<Called("gsmi_send_cb", "GSM_CB_CALL_CHANGED", g1)>>
                 ELSE <<>>]

\* The set of outcomes of one call (more than one after a signed overflow
\* in gsmi_parse_number).
gsmi_parse_clcc(g, s, send_evt) ==
    LET n1 == gsmi_parse_number(s, skip_prefix(s))
        n2 == gsmi_parse_number(s, n1.p)
        n3 == gsmi_parse_number(s, n2.p)
        n4 == gsmi_parse_number(s, n3.p)
        n5 == gsmi_parse_number(s, n4.p)
        s1 == gsmi_parse_string(s, n5.p, FALSE, CallNumberSize, TRUE)
        n6 == gsmi_parse_number(s, s1.p)
        s2 == gsmi_parse_string(s, n6.p, FALSE, CallNameSize, TRUE)
    IN  {clcc_finish([g EXCEPT !.call =
                         [id |-> v1, dir |-> v2, state |-> v3, type |-> v4,
                          is_multipart |-> v5,
                          number |-> StoreString(g.call.number, s1),
                          addr_type |-> v6,
                          name |-> StoreString(g.call.name, s2)]],
                     send_evt) :
            v1 \in NumberVals(n1), v2 \in NumberVals(n2), v3 \in NumberVals(n3),
            v4 \in NumberVals(n4), v5 \in NumberVals(n5), v6 \in NumberVals(n6)}

gsmi_parse_cmgs(g, s, send_evt) ==
    LET n == gsmi_parse_number(s, skip_prefix(s))
    IN  {LET num == U16(v)
             g1 == IF send_evt THEN [g EXCEPT !.cb = CbSmsSent(num)] ELSE g
         IN  [res |-> 1, gsm |-> g1,
              evt |-> IF send_evt
                      THEN <<Called("gsmi_send_cb", "GSM_CB_SMS_SENT", g1)>>
                      ELSE <<>>] :
            v \in NumberVals(n)}

\* an event whatever send_evt says
cmti_emits_always(send_evt) == TRUE

\* if (send_evt) { gsmi_send_cb(GSM_CB_SMS_RECV); }
cmti_emits(send_evt) == send_evt

\* map is the table gsm_dev_mem_map that gsmi_parse_memory consults
gsmi_parse_cmti(g, map, s, send_evt) ==
    LET m == gsmi_parse_memory(map, s, skip_prefix(s))
        n == gsmi_parse_number(s, m.p)
    IN  {LET g1 == [g EXCEPT !.cb = CbSmsRecv(m.mem, U32(v))]
         IN  [res |-> 1, gsm |-> g1,
              evt |-> IF cmti_emits(send_evt)
                      THEN <<Called("gsmi_send_cb", "GSM_CB_SMS_RECV", g1)>>
                      ELSE <<>>] :
            v \in NumberVals(n)}

----------------------------------------------------------------------------
(* gsmi_parse_cpms *)

\* every list written to the first slot
cpms_slot_first(i) == 1

\* &gsm.mem_list_sms[i]  (i is 0-based, the sequence is indexed from 1)
cpms_slot(i) == i + 1

\* for (i = 0; i < 3; i++) { res = ...; if (!res) { break; } }
RECURSIVE CpmsLoop(_, _, _, _, _)
\* the rest of one round of the loop, r the result of its call
CpmsRound(map, s, r, l, i) ==
    IF r.res = 0 \/ i + 1 >= 3 THEN [res |-> r.res, list |-> l]
    ELSE CpmsLoop(map, s, r.p, l, i + 1)

\* &gsm.mem_list_sms[i] is handed to the call, which clears and fills it
CpmsStore(map, s, r, list, i) ==
    CpmsRound(map, s, r, [list EXCEPT ![cpms_slot(i)] = r.mem_dst], i)

CpmsLoop(map, s, p, list, i) ==
    CpmsStore(map, s, gsmi_parse_memories_string(map, s, p, list[cpms_slot(i)]),
              list, i)

\* map is the table gsm_dev_mem_map that gsmi_parse_memory consults
gsmi_parse_cpms(g, map, s) ==
    LET r == CpmsLoop(map, s, skip_prefix(s), g.mem_list_sms, 0)
    IN  [res |-> r.res, gsm |-> [g EXCEPT !.mem_list_sms = r.list], evt |-> <<>>]

----------------------------------------------------------------------------
(* The values the variables hold while their component is not in use *)

U0 == [bo |-> 0, ccd |-> 0, tn |-> 0, tp |-> 0, ch_prev |-> NUL]

\* An operator entry after memset(ops, 0, ...).  Each name is followed by
\* the byte that lies behind its array, so that a write past the array shows.
ZeroEntry ==
    [stat |-> 0, long_name |-> ZeroBuf(LongNameSize + 1),
     short_name |-> ZeroBuf(ShortNameSize + 1), num |-> 0]

MaxOpsl == 2

\* The command message of a scan into an array of opsl entries.  The memory
\* behind ops is one entry longer than opsl says, so that a write past the
\* capacity shows.
NewMsg(opsl, opf_null) ==
    [ops |-> [k \in 0..MaxOpsl |-> ZeroEntry], opsi |-> 0, opsl |-> opsl,
     opf |-> 0, opf_null |-> opf_null]

\* A tokenizer invocation.  s is the text the cursor points into; shape, tok,
\* names and rest say how s was built; the other fields are the arguments
\* of the functions that take them.
NoCall ==
    [fn |-> "none", shape |-> "none", s |-> <<>>, tok |-> <<>>, names |-> <<>>,
     rest |-> <<>>, map |-> <<>>, dst_null |-> FALSE, dst_len |-> 0,
     trim |-> FALSE, mem0 |-> {}, stat0 |-> "GSM_SMS_STATUS_ALL"]

NoRet == [res |-> 0]

\* A line handed to a line parser; parts says how s was built.
NoLine ==
    [fn |-> "none", s |-> <<>>, send_evt |-> FALSE, parts |-> <<>>, res |-> 0]

\* gsm.call after the zero initialisation of gsm
ZeroCall ==
    [id |-> 0, dir |-> 0, state |-> 0, type |-> 0, is_multipart |-> 0,
     number |-> ZeroBuf(CallNumberSize), addr_type |-> 0,
     name |-> ZeroBuf(CallNameSize)]

Gsm0 ==
    [sim_state |-> "GSM_SIM_STATE_NOT_READY",
     call |-> ZeroCall,
     mem_list_sms |-> <<{}, {}, {}>>,
     cb |-> CbCpin("GSM_SIM_STATE_NOT_READY")]

ScanIdle ==
    /\ u = U0 /\ msg = NewMsg(0, TRUE) /\ feed = <<>> /\ nfed = 0
    /\ last = NUL /\ sent = <<>>

TokIdle == call = NoCall /\ ret = NoRet

LineIdle == gsm = Gsm0 /\ evt = <<>> /\ line = NoLine

\* the application threads
Threads == {1, 2}

\* gsm.sms after the zero initialisation of gsm
Sms0 == [enabled |-> 0, mem_available |-> {}]

\* the caller's output objects before a call: whatever the caller left there
NoOut == [entry |-> "stale", entries |-> "stale", er |-> "stale"]

\* A thread outside every API call.  args are the arguments of the call made
\* last, res what it returned, loc the local res of the check function the
\* thread is in, k the number of memory checks done, out the caller's
\* output objects, chk the results of the checks of this call in order,
\* sub the number of messages this call submitted, off whether the enabled
\* flag was clear at every step of this call so far.
NoThread ==
    [pc |-> "idle", fn |-> "none", args |-> <<>>, res |-> "none",
     loc |-> "none", k |-> 0, out |-> NoOut, chk |-> <<>>, sub |-> 0,
     off |-> TRUE]

ApiIdle ==
    /\ sms = Sms0 /\ lock = 0 /\ mbox = <<>>
    /\ thr = [t \in Threads |-> NoThread]

scan_vars == <<u, msg, feed, nfed, last, sent>>
tok_vars == <<call, ret>>
line_vars == <<gsm, evt, line>>
api_vars == <<sms, lock, mbox, thr>>

----------------------------------------------------------------------------
(* The scanner fed arbitrary bytes: specification Spec *)

MaxFeed == 6

ScanAlphabet == {"(", ")", ",", DQ, "1", "A"}

\* what the static u may hold from an earlier response
StaleU ==
    {U0,
     [bo |-> 1, ccd |-> 1, tn |-> 2, tp |-> 1, ch_prev |-> ","],
     [bo |-> 0, ccd |-> 1, tn |-> 0, tp |-> 0, ch_prev |-> ","],
     [bo |-> 1, ccd |-> 0, tn |-> 3, tp |-> 0, ch_prev |-> "1"]}

InitScan ==
    /\ pc = "start"
    /\ u \in StaleU
    /\ \E opsl \in 0..MaxOpsl, opf_null \in BOOLEAN : msg = NewMsg(opsl, opf_null)
    /\ feed = <<>> /\ nfed = 0 /\ last = NUL /\ sent = <<>>
    /\ TokIdle /\ LineIdle /\ ApiIdle

\* the call with the reset flag
DoReset ==
    LET r == gsmi_parse_cops_scan(u, msg, NUL, TRUE)
    IN  /\ u' = r.u /\ msg' = r.msg /\ last' = NUL
        /\ UNCHANGED <<feed, nfed, sent, tok_vars, line_vars, api_vars>>

\* the call that delivers byte ch
DoByte(ch) ==
    LET r == gsmi_parse_cops_scan(u, msg, ch, FALSE)
    IN  /\ u' = r.u /\ msg' = r.msg /\ last' = ch /\ nfed' = nfed + 1
        /\ UNCHANGED <<sent, tok_vars, line_vars, api_vars>>

\* the reset before the first byte of a response
ScanStart == pc = "start" /\ pc' = "scan" /\ DoReset

\* a reset at any later time
ScanReset == pc = "scan" /\ pc' = pc /\ DoReset

ScanByte ==
    /\ pc = "scan" /\ nfed < MaxFeed /\ pc' = pc /\ feed' = feed
    /\ \E ch \in ScanAlphabet : DoByte(ch)

Next == ScanStart \/ ScanReset \/ ScanByte

Spec == InitScan /\ [][Next]_vars

----------------------------------------------------------------------------
(* The scanner fed a well-formed response: specification SpecRecords *)

MaxRecs == 2

Rec(stat, long, short, num) ==
    [stat |-> stat, long |-> long, short |-> short, num |-> num]

OperatorRecords ==
    {Rec(<<"2">>, <<"L", " ", "O">>, <<"L", "O">>, <<"2", "0">>),
     Rec(<<"1">>, <<"A">>, <<"B">>, <<"7">>),
     Rec(<<"1", "2">>, <<"L", "o", "n", "g">>, <<"S", "A", "B">>, <<"2", "0", "7">>),
     Rec(<<"0">>, <<>>, <<>>, <<"0">>)}

Quoted(name) == <<DQ>> \o name \o <<DQ>>

EncodeRecord(r) ==
    <<"(">> \o r.stat \o <<",">> \o Quoted(r.long) \o <<",">>
            \o Quoted(r.short) \o <<",">> \o r.num \o <<")">>

\* the records, separated by single commas
RECURSIVE EncodeRecords(_)
EncodeRecords(rs) ==
    IF rs = <<>> THEN <<>>
    ELSE IF Len(rs) = 1 THEN EncodeRecord(rs[1])
    ELSE EncodeRecord(rs[1]) \o <<",">> \o EncodeRecords(Tail(rs))

InitRecords ==
    /\ pc = "start"
    /\ u \in StaleU
    /\ \E opsl \in 1..MaxOpsl, opf_null \in BOOLEAN : msg = NewMsg(opsl, opf_null)
    /\ sent \in SeqsOf(OperatorRecords, 0, MaxRecs)
    /\ feed = EncodeRecords(sent)
    /\ nfed = 0 /\ last = NUL
    /\ TokIdle /\ LineIdle /\ ApiIdle

ScanNext ==
    /\ pc = "scan" /\ feed # <<>> /\ pc' = pc /\ feed' = Tail(feed)
    /\ DoByte(Head(feed))

NextRecords == ScanStart \/ ScanNext

SpecRecords == InitRecords /\ [][NextRecords]_vars

----------------------------------------------------------------------------
(* Claims about the operator scanner *)

\* the value of a decimal digit string, as a sum of digit * 10^position
RECURSIVE DecValue(_)
DecValue(ds) ==
    IF ds = <<>> THEN 0
    ELSE GSM_CHARTONUM(Head(ds)) * 10^(Len(ds) - 1) + DecValue(Tail(ds))

\* what an entry holds, its names read as terminated strings
EntryView(e) ==
    [stat |-> e.stat, long |-> CStr(e.long_name),
     short |-> CStr(e.short_name), num |-> e.num]

\* what record r should leave in its entry; a name longer than its buffer
\* is held cut to the buffer's size less the terminator
ExpectedEntry(r) ==
    [stat |-> DecValue(r.stat), long |-> Take(r.long, LongNameSize - 1),
     short |-> Take(r.short, ShortNameSize - 1), num |-> DecValue(r.num)]

\* C1: after a reset, with opsi = 0, zeroed entries and capacity opsl, a
\* response of N <= opsl well-formed records separated by single commas
\* leaves exactly N entries, entry k holding the decimal status, the long
\* name, the short name and the decimal numeric id of record k, and the
\* count reported through opf is N.
C1_EndToEnd ==
    (pc = "scan" /\ feed = <<>> /\ Len(sent) <= msg.opsl) =>
        /\ msg.opsi = Len(sent)
        /\ ~msg.opf_null => msg.opf = Len(sent)
        /\ \A k \in 1..Len(sent) :
               EntryView(msg.ops[k - 1]) = ExpectedEntry(sent[k])
        /\ \A k \in Len(sent)..MaxOpsl : msg.ops[k] = ZeroEntry

\* the response (2,"L O","LO",20),(1,"A","B",7) scanned into two entries
C1_Witness ==
    /\ pc = "scan" /\ feed = <<>> /\ msg.opsl = 2 /\ ~msg.opf_null
    /\ sent = <<Rec(<<"2">>, <<"L", " ", "O">>, <<"L", "O">>, <<"2", "0">>),
                Rec(<<"1">>, <<"A">>, <<"B">>, <<"7">>)>>
    /\ msg.opf = 2
    /\ EntryView(msg.ops[0]) =
           [stat |-> 2, long |-> <<"L", " ", "O">>, short |-> <<"L", "O">>,
            num |-> 20]
    /\ EntryView(msg.ops[1]) =
           [stat |-> 1, long |-> <<"A">>, short |-> <<"B">>, num |-> 7]

\* C2: for every byte sequence fed after a reset, the output index and the
\* reported count never exceed the capacity, no entry at an index >= the
\* capacity is ever written, an entry below the index is never modified by
\* a later byte, and a byte fed while the array is full changes neither the
\* array, the count nor the scanner state.
C2_CapacitySafety ==
    /\ [](/\ msg.opsi <= msg.opsl
          /\ msg.opf <= msg.opsl
          /\ \A k \in 0..MaxOpsl : k >= msg.opsl => msg.ops[k] = ZeroEntry)
    /\ [][/\ \A k \in 0..MaxOpsl : k < msg.opsi => msg.ops'[k] = msg.ops[k]
          /\ (msg.opsi >= msg.opsl /\ nfed' = nfed + 1) => (u' = u /\ msg' = msg)
         ]_vars

\* two records closed into an array of two, then a "(" and a "1" fed and
\* ignored: the scanner still remembers the ")" that filled the array
C2_Witness ==
    /\ pc = "scan" /\ msg.opsl = 2 /\ msg.opsi = 2
    /\ last = "1" /\ u.ch_prev = ")" /\ u.bo = 0

\* a byte is delivered in this step
ByteStep == nfed' = nfed + 1

\* a call with the reset flag is made in this step (of a non-stuttering step)
ResetStep == nfed' = nfed

\* once the latch is set, a byte changes nothing
LatchFreezes == [][(u.ccd = 1 /\ ByteStep) => (u' = u /\ msg' = msg)]_vars

\* the call with the reset flag clears the latch
ResetClearsLatch == [][ResetStep => u'.ccd = 0]_vars

\* C3, as stated: once two consecutive commas are received while outside a
\* record, the stop latch is set, and every later character leaves the
\* array, the count and the scanner state unchanged until the next call
\* with the reset flag, which clears the latch.
C3_Original ==
    /\ [][(ByteStep /\ u.bo = 0 /\ last = "," /\ last' = ",") => u'.ccd = 1]_vars
    /\ LatchFreezes
    /\ ResetClearsLatch

\* C3, amended: the second of two consecutive commas received outside a
\* record sets the stop latch unless the output array is already full (a
\* byte fed to a full array is ignored before the comma test, so the latch
\* stays as it was); once the latch is set every later character leaves the
\* array, the count and the scanner state unchanged until the next call
\* with the reset flag, which clears the latch.
C3_DoubleCommaLatch ==
    /\ [][(ByteStep /\ u.bo = 0 /\ last = "," /\ last' = ","
             /\ msg.opsi < msg.opsl) => u'.ccd = 1]_vars
    /\ [][(ByteStep /\ msg.opsi >= msg.opsl) => u'.ccd = u.ccd]_vars
    /\ LatchFreezes
    /\ ResetClearsLatch

\* the latch was set by two commas and a "(" fed afterwards opened no record
C3_Witness ==
    /\ pc = "scan" /\ u.ccd = 1 /\ u.ch_prev = "," /\ last = "("
    /\ u.bo = 0 /\ msg.opsi < msg.opsl

\* C13: from any scanner state (record open or not, latch set or not, any
\* field index, offset and previous character) a call with the reset flag
\* yields the same initial state, so a second reset in a row changes
\* nothing, and a reset modifies neither the output array nor the output
\* index and count.
C13_ResetInitial == [][ResetStep => (u' = U0 /\ msg' = msg)]_vars

\* a reset made after a record was stored: the scanner is back in its
\* initial state and the entry, the index and the count are still there
C13_Witness ==
    /\ pc = "scan" /\ nfed > 0 /\ last = NUL /\ u = U0
    /\ msg.opsi = 1 /\ msg.opf = 1 /\ msg.ops[0].stat = 1

\* the status and the two names of the entry under the output index
OtherFields(m) ==
    <<m.ops[m.opsi].stat, m.ops[m.opsi].long_name, m.ops[m.opsi].short_name>>

\* C16: inside an open record, once the field index has reached 3, every
\* further comma before the closing ")" leaves the field index at 3 and
\* changes no scanner state, so the characters that follow still accumulate
\* into the numeric id and never into the status, long-name or short-name
\* field of that record.
C16_FieldIndexCap ==
    /\ [][(ByteStep /\ u.bo = 1 /\ u.tn = 3 /\ last' = ",") =>
             (u'.tn = 3 /\ u'.tp = u.tp /\ u'.bo = 1 /\ u'.ccd = u.ccd)]_vars
    /\ [][(ByteStep /\ u.bo = 1 /\ u.tn = 3 /\ last' # ")") =>
             (u'.tn = 3 /\ OtherFields(msg') = OtherFields(msg))]_vars

\* the array buf of size bytes holds a terminated string, and the byte
\* behind the array is as it was
NameInBounds(buf, size) ==
    /\ buf[size + 1] = NUL
    /\ \E k \in 1..size : buf[k] = NUL

\* the byte delivered in this step is appended to the name buf of size bytes
\* at offset u.tp and a terminator follows it
NameAppended(buf, newbuf, size) ==
    /\ u.tp < size - 1 /\ u'.tp = u.tp + 1
    /\ newbuf = [buf EXCEPT ![u.tp + 1] = last', ![u.tp + 2] = NUL]
    /\ CStr(newbuf) = SubSeq(buf, 1, u.tp) \o <<last'>>

\* the byte delivered in this step is dropped, and the scanner has taken it
NameDropped(buf, newbuf, size) ==
    /\ u.tp = size - 1 /\ u'.tp = u.tp
    /\ newbuf = buf /\ u'.ch_prev = last' /\ u'.tn = u.tn /\ u'.bo = 1

\* a data byte is delivered in this step to the name field tn of an open
\* record
NameByte(tn) ==
    /\ ByteStep /\ u.bo = 1 /\ u.tn = tn /\ ~cops_ignores(u, msg)
    /\ last' \notin {")", ",", DQ}

\* C17: for every byte sequence, the long-name and short-name fields of an
\* entry are written only at offsets 0..capacity-1 of their buffers, hold
\* at most capacity-1 characters followed by a terminator after every
\* appended character, and characters beyond that length are dropped while
\* the scanner keeps consuming input.
C17_NameTruncation ==
    /\ [](\A k \in 0..MaxOpsl :
             /\ NameInBounds(msg.ops[k].long_name, LongNameSize)
             /\ NameInBounds(msg.ops[k].short_name, ShortNameSize))
    /\ [][NameByte(1) =>
             LET buf == msg.ops[msg.opsi].long_name
                 newbuf == msg.ops'[msg.opsi].long_name
             IN  \/ NameAppended(buf, newbuf, LongNameSize)
                 \/ NameDropped(buf, newbuf, LongNameSize)]_vars
    /\ [][NameByte(2) =>
             LET buf == msg.ops[msg.opsi].short_name
                 newbuf == msg.ops'[msg.opsi].short_name
             IN  \/ NameAppended(buf, newbuf, ShortNameSize)
                 \/ NameDropped(buf, newbuf, ShortNameSize)]_vars

\* a long name that filled its buffer, and one more character dropped
C17_Witness ==
    /\ pc = "scan" /\ u.bo = 1 /\ u.tn = 1 /\ u.tp = LongNameSize - 1
    /\ nfed = LongNameSize + 2 /\ last = "A"
    /\ Len(CStr(msg.ops[0].long_name)) = LongNameSize - 1
    /\ msg.ops[0].long_name[LongNameSize] = NUL

----------------------------------------------------------------------------
(* The tokenizers applied to one input each: specification SpecTok *)

MaxDigits == 3
MaxTok == 3
MaxDstLen == 4
MaxList == 2

NumDigits == {"0", "1", "2", "8"}
TokChars == {"h", "e", ","}

SM == <<"S", "M">>
ME == <<"M", "E">>
SM_P == <<"S", "M", "_", "P">>
XX == <<"X", "X">>
SMX == <<"S", "M", "X">>

\* the names a modem may send: in a table, a prefix of one, or unknown
MemNames == {SM, ME, SM_P, XX, SMX, <<"S">>}

Entry(mem_str, mem) == [mem_str |-> mem_str, mem |-> mem]

\* gsm_dev_mem_map: device tables, a longer name listed before its prefixes
MemMaps ==
    {<<Entry(SM_P, 0), Entry(SM, 2), Entry(ME, 3)>>,
     <<Entry(SM, 0), Entry(ME, 1)>>}

\* "n1","n2",...
RECURSIVE QuotedList(_)
QuotedList(ns) ==
    IF ns = <<>> THEN <<>>
    ELSE IF Len(ns) = 1 THEN Quoted(ns[1])
    ELSE Quoted(ns[1]) \o <<",">> \o QuotedList(Tail(ns))

\* <digits>, and <digits> with nothing after them
NumberCalls ==
    {[NoCall EXCEPT !.fn = "number", !.shape = shape, !.tok = sign \o ds,
                    !.s = sign \o ds \o (IF shape = "comma" THEN <<",">> ELSE <<>>)] :
        sign \in {<<>>, <<"-">>}, ds \in SeqsOf(NumDigits, 0, MaxDigits),
        shape \in {"comma", "bare"}}

\* "tok",rest ; "tok"<CR><LF> ; "tok with no closing quote
StringCalls ==
    {[NoCall EXCEPT !.fn = "string", !.shape = shape, !.tok = tok,
                    !.rest = <<"r", "e">>,
                    !.s = CASE shape = "comma" -> Quoted(tok) \o <<",", "r", "e">>
                            [] shape = "crlf" -> Quoted(tok) \o <<CR, LF>>
                            [] shape = "open" -> <<DQ>> \o tok,
                    !.dst_null = dst_null, !.dst_len = dst_len, !.trim = trim] :
        shape \in {"comma", "crlf", "open"}, tok \in SeqsOf(TokChars, 0, MaxTok),
        dst_null \in BOOLEAN, dst_len \in 0..MaxDstLen, trim \in BOOLEAN}

\* "name",rest
MemoryCalls ==
    {[NoCall EXCEPT !.fn = "memory", !.shape = "comma", !.tok = name,
                    !.rest = <<"7">>, !.map = map,
                    !.s = Quoted(name) \o <<",", "7">>] :
        name \in MemNames, map \in MemMaps}

\* ("n1","n2")rest
MemoriesCalls ==
    {[NoCall EXCEPT !.fn = "memories", !.shape = "list", !.names = ns,
                    !.rest = rest, !.map = map, !.mem0 = mem0,
                    !.s = <<"(">> \o QuotedList(ns) \o <<")">> \o rest] :
        ns \in SeqsOf(MemNames, 1, MaxList), map \in MemMaps,
        rest \in {<<>>, <<"r", "e">>, <<",", "(">>}, mem0 \in {{}, {1, 4}}}

SmsStatuses ==
    {"GSM_SMS_STATUS_UNREAD", "GSM_SMS_STATUS_READ", "GSM_SMS_STATUS_UNSENT",
     "GSM_SMS_STATUS_SENT"}

SmsLiterals == {REC_UNREAD, REC_READ, STO_UNSENT, REC_SENT}

\* a literal, a literal with one more character, a literal cut short, others
SmsTokens ==
    SmsLiterals
    \cup {l \o <<"X">> : l \in SmsLiterals}
    \cup {SubSeq(l, 1, Len(l) - 1) : l \in SmsLiterals}
    \cup {<<>>, <<"G", "A", "R", "B", "A", "G", "E">>}

\* "tok",rest
SmsStatusCalls ==
    {[NoCall EXCEPT !.fn = "sms_status", !.shape = "comma", !.tok = tok,
                    !.rest = <<"7">>, !.stat0 = stat0,
                    !.s = Quoted(tok) \o <<",", "7">>] :
        tok \in SmsTokens, stat0 \in SmsStatuses \cup {"GSM_SMS_STATUS_ALL"}}

InitTok ==
    /\ pc = "call"
    /\ call \in NumberCalls \cup StringCalls \cup MemoryCalls \cup MemoriesCalls
                \cup SmsStatusCalls
    /\ ret = NoRet
    /\ ScanIdle /\ LineIdle /\ ApiIdle

Returns(r) ==
    /\ ret' = r /\ pc' = "done"
    /\ UNCHANGED <<call, scan_vars, line_vars, api_vars>>

\* A signed overflow is undefined: the value returned may be any int32_t.
CallNumber ==
    /\ pc = "call" /\ call.fn = "number"
    /\ LET r == gsmi_parse_number(call.s, 1)
       IN  \E v \in IF r.ovf THEN IntRange ELSE {r.val} :
               Returns([val |-> v, p |-> r.p, ovf |-> r.ovf])

CallString ==
    /\ pc = "call" /\ call.fn = "string"
    /\ Returns(gsmi_parse_string(call.s, 1, call.dst_null, call.dst_len, call.trim))

CallMemory ==
    /\ pc = "call" /\ call.fn = "memory"
    /\ Returns(gsmi_parse_memory(call.map, call.s, 1))

CallMemories ==
    /\ pc = "call" /\ call.fn = "memories"
    /\ Returns(gsmi_parse_memories_string(call.map, call.s, 1, call.mem0))

CallSmsStatus ==
    /\ pc = "call" /\ call.fn = "sms_status"
    /\ Returns(gsmi_parse_sms_status(call.s, 1, call.stat0))

NextTok == CallNumber \/ CallString \/ CallMemory \/ CallMemories \/ CallSmsStatus

SpecTok == InitTok /\ [][NextTok]_vars

----------------------------------------------------------------------------
(* Claims about the tokenizers *)

Done(fn, shape) == pc = "done" /\ call.fn = fn /\ call.shape = shape

\* t matches -?[0-9]+
IsDecimal(t) ==
    LET ds == IF t # <<>> /\ Head(t) = "-" THEN Tail(t) ELSE t
    IN  ds # <<>> /\ \A k \in 1..Len(ds) : GSM_CHARISNUM(ds[k])

\* the integer a string matching -?[0-9]+ denotes
MathValue(t) == IF Head(t) = "-" THEN -DecValue(Tail(t)) ELSE DecValue(t)

\* the cursor after a text of n characters and the comma that follows it
PastComma(n) == n + 2

C4_MagnitudeFits ==
    (Done("number", "comma") /\ IsDecimal(call.tok)
        /\ MathValue(call.tok) \in (-INT_MAX)..INT_MAX) =>
        /\ ~ret.ovf
        /\ ret.val = MathValue(call.tok)
        /\ ret.p = PastComma(Len(call.tok))

\* the index of the comma that follows a quoted token of n characters
AtComma(n) == n + 3

\* C5, as stated: with trim set, a quoted token of n characters followed by
\* a comma and further text, and a destination of capacity c >= 1, the
\* destination receives the first min(n, c-1) characters and a terminator,
\* and the cursor ends at the first character after the comma.
C5_Original ==
    (Done("string", "comma") /\ call.trim /\ ~call.dst_null /\ call.dst_len >= 1) =>
        /\ ret.dst = Take(call.tok, call.dst_len - 1)
        /\ ret.nwr = Len(ret.dst) + 1
        /\ ret.p = AtComma(Len(call.tok)) + 1
        /\ From(call.s, ret.p) = call.rest

\* C5, amended: the destination receives the first min(n, c-1) characters
\* and a terminator, and for every capacity the cursor ends immediately
\* after the closing quote, on the comma that precedes the further text
\* (the comma is left for the next tokenizer to skip).
C5_StringTrim ==
    (Done("string", "comma") /\ call.trim /\ ~call.dst_null /\ call.dst_len >= 1) =>
        /\ ret.dst = Take(call.tok, call.dst_len - 1)
        /\ ret.nwr = Len(ret.dst) + 1
        /\ ret.p = AtComma(Len(call.tok))
        /\ From(call.s, ret.p) = <<",">> \o call.rest

\* a token of three characters cut to two by a destination of three bytes
C5_Witness ==
    /\ Done("string", "comma") /\ call.trim /\ ~call.dst_null
    /\ call.dst_len = 3 /\ call.tok = <<"h", "e", "h">>
    /\ ret.dst = <<"h", "e">> /\ ret.nwr = 3
    /\ From(call.s, ret.p) = <<",", "r", "e">>

IsPrefix(a, b) == Len(a) <= Len(b) /\ SubSeq(b, 1, Len(a)) = a

MapNames(map) == {map[i].mem_str : i \in 1..Len(map)}

\* the selector the table maps name to
SelectorOf(map, name) ==
    map[CHOOSE i \in 1..Len(map) : map[i].mem_str = name].mem

\* no entry listed before name's own is a prefix of name
ListedFirst(map, name) ==
    \A i, j \in 1..Len(map) :
        (map[j].mem_str = name /\ i < j) => ~IsPrefix(map[i].mem_str, name)

\* C6, as stated: on "<name>",rest a table name mapped to k gives k, a name
\* that is no table name gives the unknown selector, and in both cases the
\* cursor is advanced past the whole quoted token to rest.
C6_Original ==
    Done("memory", "comma") =>
        /\ call.tok \in MapNames(call.map) =>
               ret.mem = SelectorOf(call.map, call.tok)
        /\ call.tok \notin MapNames(call.map) => ret.mem = GSM_MEM_UNKNOWN
        /\ From(call.s, ret.p) = call.rest

\* C6, amended: a table name mapped to k, with no prefix of it listed
\* earlier in the table, gives k; a name of which no table name is a prefix
\* gives the unknown selector; in both cases the cursor is left immediately
\* after the closing quote, on the comma that precedes rest.
C6_Memory ==
    Done("memory", "comma") =>
        /\ (call.tok \in MapNames(call.map) /\ ListedFirst(call.map, call.tok)) =>
               /\ ret.mem = SelectorOf(call.map, call.tok)
               /\ ret.p = AtComma(Len(call.tok))
        /\ (\A n \in MapNames(call.map) : ~IsPrefix(n, call.tok)) =>
               /\ ret.mem = GSM_MEM_UNKNOWN
               /\ ret.p = AtComma(Len(call.tok))

\* "SM",7 against a table with ("SM", 2): selector 2, cursor on the comma
C6_Witness ==
    /\ Done("memory", "comma") /\ call.tok = SM
    /\ call.map = <<Entry(SM_P, 0), Entry(SM, 2), Entry(ME, 3)>>
    /\ ret.mem = 2 /\ From(call.s, ret.p) = <<",", "7">>

\* C7: on a parenthesized, comma-separated list of quoted names that are all
\* table names, the result is the mask with bit selector(name) set for each
\* listed name and no other bit, whatever the output held before, and the
\* cursor is left immediately after the closing ")".
C7_MemoryList ==
    (Done("memories", "list")
        /\ \A k \in 1..Len(call.names) : call.names[k] \in MapNames(call.map)) =>
        /\ ret.mem_dst =
               {SelectorOf(call.map, call.names[k]) : k \in 1..Len(call.names)}
        /\ ret.p = Len(call.s) - Len(call.rest) + 1
        /\ From(call.s, ret.p) = call.rest

\* ("SM","ME")re with SM = 0, ME = 1 into an output that held other bits
C7_Witness ==
    /\ Done("memories", "list") /\ call.names = <<SM, ME>>
    /\ call.map = <<Entry(SM, 0), Entry(ME, 1)>>
    /\ call.mem0 = {1, 4} /\ call.rest = <<"r", "e">>
    /\ ret.mem_dst = {0, 1} /\ From(call.s, ret.p) = <<"r", "e">>

\* the status a literal stands for
StatusOfLiteral(l) ==
    CASE l = REC_UNREAD -> "GSM_SMS_STATUS_UNREAD"
      [] l = REC_READ -> "GSM_SMS_STATUS_READ"
      [] l = STO_UNSENT -> "GSM_SMS_STATUS_UNSENT"
      [] l = REC_SENT -> "GSM_SMS_STATUS_SENT"

\* C10: the sub-parser reports success and writes status S if and only if
\* the quoted token is exactly the literal of S; for every other token,
\* also one that merely starts with a literal, it reports failure and
\* leaves the output status unchanged.
C10_SmsStatusExact ==
    Done("sms_status", "comma") =>
        IF call.tok \in SmsLiterals
        THEN ret.res = 1 /\ ret.stat = StatusOfLiteral(call.tok)
        ELSE ret.res = 0 /\ ret.stat = call.stat0

\* name matches no table entry: no table name is a prefix of it
NoMatch(map, name) == \A n \in MapNames(map) : ~IsPrefix(n, name)

\* the selector parse_memory should give for a table name or an unmatched name
ExpectedSelector(map, name) ==
    IF name \in MapNames(map) THEN SelectorOf(map, name) ELSE GSM_MEM_UNKNOWN

\* C19: for a parenthesized list in which any name, at any position
\* including the last one before ")", matches no table entry, the parser
\* ORs the unknown selector's bit into the mask, still ORs in the bit of
\* every known name of the list, stops at that list's closing ")", and
\* leaves the cursor immediately after it without consuming any text that
\* follows the list.
C19_UnknownNames ==
    (/\ Done("memories", "list")
     /\ \A k \in 1..Len(call.names) :
            call.names[k] \in MapNames(call.map) \/ NoMatch(call.map, call.names[k])
     /\ \E k \in 1..Len(call.names) : NoMatch(call.map, call.names[k])) =>
        /\ ret.mem_dst =
               {ExpectedSelector(call.map, call.names[k]) : k \in 1..Len(call.names)}
        /\ ret.p = Len(call.s) - Len(call.rest) + 1
        /\ From(call.s, ret.p) = call.rest

\* C19 for the lists whose last name is a table name: on those the unknown
\* names are skipped one token each and the cursor ends behind the ")"
C19_UnknownNotLast ==
    (/\ Done("memories", "list")
     /\ \A k \in 1..Len(call.names) :
            call.names[k] \in MapNames(call.map) \/ NoMatch(call.map, call.names[k])
     /\ \E k \in 1..Len(call.names) : NoMatch(call.map, call.names[k])
     /\ call.names[Len(call.names)] \in MapNames(call.map)) =>
        /\ ret.mem_dst =
               {ExpectedSelector(call.map, call.names[k]) : k \in 1..Len(call.names)}
        /\ From(call.s, ret.p) = call.rest

\* C18: for every input, every trim value and every destination capacity
\* c, including c = 0 and c = 1, parse_string with a non-null destination
\* writes at most c bytes into it (at most c-1 content characters plus one
\* terminator) and never writes outside the first c bytes.
C18_DstBound ==
    (pc = "done" /\ call.fn = "string" /\ ~call.dst_null) =>
        /\ ret.nwr <= call.dst_len
        /\ Len(ret.dst) <= call.dst_len - 1

\* C18 for the capacities of at least one byte: on those the bound holds
C18_DstBoundFromOne ==
    (pc = "done" /\ call.fn = "string" /\ ~call.dst_null /\ call.dst_len >= 1) =>
        /\ ret.nwr <= call.dst_len
        /\ Len(ret.dst) <= call.dst_len - 1

----------------------------------------------------------------------------
(* gsmi_parse_hexnumber, gsmi_parse_ip, gsmi_parse_mac over a string and    *)
(* the memory that lies behind its terminator: specification SpecAddr       *)

HexDigits ==
    <<"0", "1", "2", "3", "4", "5", "6", "7", "8", "9", "A", "B", "C", "D", "E", "F">>

LowerHex == <<"a", "b", "c", "d", "e", "f">>

GSM_CHARISHEXNUM(x) ==
    (\E k \in 1..16 : HexDigits[k] = x) \/ (\E k \in 1..6 : LowerHex[k] = x)

GSM_CHARHEXTONUM(x) ==
    IF \E k \in 1..16 : HexDigits[k] = x
    THEN (CHOOSE k \in 1..16 : HexDigits[k] = x) - 1
    ELSE (CHOOSE k \in 1..6 : LowerHex[k] = x) + 9

\* while (GSM_CHARISHEXNUM(*p)) { val = val * 16 + GSM_CHARHEXTONUM(*p); p++; }
RECURSIVE HexLoop(_, _, _, _)
HexLoop(s, p, val, ovf) ==
    IF GSM_CHARISHEXNUM(At(s, p))
    THEN LET v == val * 16 + GSM_CHARHEXTONUM(At(s, p))
         IN  HexLoop(s, p + 1, Wrap(v), ovf \/ v > INT_MAX)
    ELSE [val |-> val, p |-> p, ovf |-> ovf]

gsmi_parse_hexnumber(s, p0) ==
    LET p1 == IF At(s, p0) = DQ THEN p0 + 1 ELSE p0
        p2 == IF At(s, p1) = "," THEN p1 + 1 ELSE p1
        p3 == IF At(s, p2) = DQ THEN p2 + 1 ELSE p2
        r == HexLoop(s, p3, 0, FALSE)
        p4 == IF At(s, r.p) = "," THEN r.p + 1 ELSE r.p
    IN  [val |-> r.val, p |-> p4, ovf |-> r.ovf]

\* uint8_t
U8Bits == 8

U8(v) == v % 2^U8Bits

\* the bytes a field may receive: any byte after a signed overflow
ByteVals(r) == IF r.ovf THEN 0..(2^U8Bits - 1) ELSE {U8(r.val)}

\* p++ behind a field
addr_step(s, p) == p + 1

\* The memory image s is the string, its terminator and the bytes behind
\* it.  reads holds the cursor each call of the number parser started at,
\* which is a position the call reads.
gsmi_parse_ip(s, p0) ==
    LET p1 == IF At(s, p0) = DQ THEN p0 + 1 ELSE p0
        n1 == gsmi_parse_number(s, p1)
        q1 == addr_step(s, n1.p)
        n2 == gsmi_parse_number(s, q1)
        q2 == addr_step(s, n2.p)
        n3 == gsmi_parse_number(s, q2)
        q3 == addr_step(s, n3.p)
        n4 == gsmi_parse_number(s, q3)
        p2 == IF At(s, n4.p) = DQ THEN n4.p + 1 ELSE n4.p
    IN  {[res |-> 1, p |-> p2, addr |-> <<v1, v2, v3, v4>>,
          reads |-> {p1, q1, q2, q3, n4.p}] :
            v1 \in ByteVals(n1), v2 \in ByteVals(n2), v3 \in ByteVals(n3),
            v4 \in ByteVals(n4)}

gsmi_parse_mac(s, p0) ==
    LET p1 == IF At(s, p0) = DQ THEN p0 + 1 ELSE p0
        n1 == gsmi_parse_hexnumber(s, p1)
        q1 == addr_step(s, n1.p)
        n2 == gsmi_parse_hexnumber(s, q1)
        q2 == addr_step(s, n2.p)
        n3 == gsmi_parse_hexnumber(s, q2)
        q3 == addr_step(s, n3.p)
        n4 == gsmi_parse_hexnumber(s, q3)
        q4 == addr_step(s, n4.p)
        n5 == gsmi_parse_hexnumber(s, q4)
        q5 == addr_step(s, n5.p)
        n6 == gsmi_parse_hexnumber(s, q5)
        p2 == IF At(s, n6.p) = DQ THEN n6.p + 1 ELSE n6.p
        p3 == IF At(s, p2) = "," THEN p2 + 1 ELSE p2
    IN  {[res |-> 1, p |-> p3, addr |-> <<v1, v2, v3, v4, v5, v6>>,
          reads |-> {p1, q1, q2, q3, q4, q5, n6.p, p2}] :
            v1 \in ByteVals(n1), v2 \in ByteVals(n2), v3 \in ByteVals(n3),
            v4 \in ByteVals(n4), v5 \in ByteVals(n5), v6 \in ByteVals(n6)}

\* fields joined by the separator sep
RECURSIVE Joined(_, _)
Joined(fs, sep) ==
    IF fs = <<>> THEN <<>>
    ELSE IF Len(fs) = 1 THEN fs[1]
    ELSE fs[1] \o <<sep>> \o Joined(Tail(fs), sep)

\* whole addresses, addresses cut short, and the empty string
IpFields == <<<<"1", "2">>, <<"0">>, <<"8">>, <<"1">>>>
MacFields == <<<<"1", "A">>, <<"0">>, <<"f">>, <<"2">>, <<"8">>, <<"7", "E">>>>

AddrTexts(fields, sep) ==
    UNION {{Joined(SubSeq(fields, 1, n), sep),
            <<DQ>> \o Joined(SubSeq(fields, 1, n), sep) \o <<DQ>>,
            <<DQ>> \o Joined(SubSeq(fields, 1, n), sep) \o <<DQ, ",", "7">>} :
              n \in 0..Len(fields)}

\* what the memory behind the terminator may hold
MaxBehind == 3
BehindBytes == SeqsOf({NUL, "1"}, MaxBehind, MaxBehind)

\* s is the string, rest the bytes behind its terminator
AddrCalls ==
    {[NoCall EXCEPT !.fn = "ip", !.shape = "addr", !.s = s, !.rest = b] :
        s \in AddrTexts(IpFields, "."), b \in BehindBytes}
    \cup
    {[NoCall EXCEPT !.fn = "mac", !.shape = "addr", !.s = s, !.rest = b] :
        s \in AddrTexts(MacFields, ":"), b \in BehindBytes}

\* the string, its terminator, and what lies behind
Image(c) == c.s \o <<NUL>> \o c.rest

InitAddr ==
    /\ pc = "call" /\ call \in AddrCalls /\ ret = NoRet
    /\ ScanIdle /\ LineIdle /\ ApiIdle

CallIp ==
    /\ pc = "call" /\ call.fn = "ip"
    /\ \E r \in gsmi_parse_ip(Image(call), 1) : Returns(r)

CallMac ==
    /\ pc = "call" /\ call.fn = "mac"
    /\ \E r \in gsmi_parse_mac(Image(call), 1) : Returns(r)

NextAddr == CallIp \/ CallMac

SpecAddr == InitAddr /\ [][NextAddr]_vars

\* the position of the terminator of the input string
Terminator == Len(call.s) + 1

\* C24: for every terminated input string, well-formed or malformed
\* (including empty and truncated input), a tokenizer returns a cursor that
\* is not before its start position and not past the terminator of the
\* input, and reads no character beyond that terminator; here for parse_ip
\* and parse_mac.
C24_CursorBound ==
    Done(call.fn, "addr") =>
        /\ 1 <= ret.p /\ ret.p <= Terminator
        /\ \A q \in ret.reads : q <= Terminator

\* for whole addresses, quoted or not, both parsers stay inside the string
C24_WholeAddress ==
    (Done(call.fn, "addr")
        /\ \E t \in {Joined(IpFields, "."), Joined(MacFields, ":")} :
               call.s \in {t, <<DQ>> \o t \o <<DQ>>, <<DQ>> \o t \o <<DQ, ",", "7">>})
        => /\ ret.p <= Terminator
           /\ \A q \in ret.reads : q <= Terminator

----------------------------------------------------------------------------
(* gsmi_parse_memory against name tables in every order: specification     *)
(* SpecMem                                                                  *)

\* the entries a device table is made of
MemEntries == {Entry(SM, 2), Entry(SM_P, 0), Entry(ME, 3)}

\* gsm_dev_mem_map: two or three of the entries, in any order
OrderedMaps ==
    {m \in SeqsOf(MemEntries, 2, 3) : \A i, j \in 1..Len(m) : i # j => m[i] # m[j]}

\* "name",rest
MemoryOrderCalls ==
    {[NoCall EXCEPT !.fn = "memory", !.shape = "order", !.tok = name,
                    !.rest = <<"7">>, !.map = map,
                    !.s = Quoted(name) \o <<",", "7">>] :
        name \in MemNames, map \in OrderedMaps}

InitMem ==
    /\ pc = "call" /\ call \in MemoryOrderCalls /\ ret = NoRet
    /\ ScanIdle /\ LineIdle /\ ApiIdle

NextMem == CallMemory

SpecMem == InitMem /\ [][NextMem]_vars

\* the indices of the table entries whose name is a prefix of the token
Matching(map, tok) == {i \in 1..Len(map) : IsPrefix(map[i].mem_str, tok)}

\* the matching entry with the longest name
Longest(map, tok) ==
    CHOOSE i \in Matching(map, tok) :
        \A j \in Matching(map, tok) : Len(map[j].mem_str) <= Len(map[i].mem_str)

\* the matching entry listed first
First(map, tok) ==
    CHOOSE i \in Matching(map, tok) : \A j \in Matching(map, tok) : i <= j

\* the cursor after the opening quote, a name of n characters, and the
\* closing quote when it follows at once
AfterName(s, n) == IF At(s, n + 2) = DQ THEN n + 3 ELSE n + 2

\* C20, as stated: when several table names are prefixes of the token,
\* parse_memory returns the selector of the longest such name and advances
\* the cursor by that name's length, whatever the order of the entries in
\* the table.
C20_Original ==
    (Done("memory", "order") /\ Matching(call.map, call.tok) # {}) =>
        LET e == call.map[Longest(call.map, call.tok)]
        IN  ret.mem = e.mem /\ ret.p = AfterName(call.s, Len(e.mem_str))

\* C20, amended: when several table names are prefixes of the token,
\* parse_memory returns the selector of the one listed first in the table
\* and advances the cursor by that name's length; this is the longest such
\* name when the table lists every name before the names that are its
\* prefixes, and a shorter one otherwise.
C20_FirstMatch ==
    (Done("memory", "order") /\ Matching(call.map, call.tok) # {}) =>
        LET e == call.map[First(call.map, call.tok)]
        IN  /\ ret.mem = e.mem /\ ret.p = AfterName(call.s, Len(e.mem_str))
            /\ (\A n \in MapNames(call.map) : ListedFirst(call.map, n)) =>
                   e = call.map[Longest(call.map, call.tok)]

\* "SM_P" against a table that lists SM before SM_P: the selector of SM,
\* the cursor behind the two characters of SM
C20_Witness ==
    /\ Done("memory", "order") /\ call.tok = SM_P
    /\ call.map = <<Entry(SM, 2), Entry(SM_P, 0), Entry(ME, 3)>>
    /\ ret.mem = 2 /\ From(call.s, ret.p) = <<"_", "P", DQ, ",", "7">>

----------------------------------------------------------------------------
(* The line parsers fed response lines: specification SpecLine *)

CPIN_PREFIX == <<"+", "C", "P", "I", "N", ":", " ">>

CpinPhrases == <<READY, NOT_READY, NOT_INSERTED, SIM_PIN, PIN_PUK>>

\* a phrase alone, followed by CR LF or by another character; a phrase cut
\* short; other text; each with and without the +CPIN: prefix
CpinBodies ==
    {CpinPhrases[i] \o tail :
        i \in 1..Len(CpinPhrases), tail \in {<<>>, <<CR, LF>>, <<"X">>}}
    \cup {SubSeq(CpinPhrases[i], 1, Len(CpinPhrases[i]) - 1) :
            i \in 1..Len(CpinPhrases)}
    \cup {<<>>, <<"E", "R", "R", "O", "R">>, <<"S", "I", "M", " ", "P", "U", "K">>}

CpinLines == CpinBodies \cup {CPIN_PREFIX \o b : b \in CpinBodies}

InitLine ==
    /\ pc = "line"
    /\ \E st \in SimStates : gsm = [Gsm0 EXCEPT !.sim_state = st]
    /\ evt = <<>> /\ line = NoLine
    /\ ScanIdle /\ TokIdle /\ ApiIdle

\* the device state, the collaborator calls and the line after a parser call
LineParsed(r, fn, s, send_evt, parts) ==
    /\ gsm' = r.gsm /\ evt' = r.evt
    /\ line' = [fn |-> fn, s |-> s, send_evt |-> send_evt, parts |-> parts,
                res |-> r.res]
    /\ UNCHANGED <<pc, scan_vars, tok_vars, api_vars>>

ParseCpinOf(lines) ==
    /\ pc = "line"
    /\ \E s \in lines, send_evt \in BOOLEAN :
           LineParsed(gsmi_parse_cpin(gsm, s, send_evt), "cpin", s, send_evt, <<>>)

ParseCpin == ParseCpinOf(CpinLines)

NextLine == ParseCpin

SpecLine == InitLine /\ [][NextLine]_vars

----------------------------------------------------------------------------
(* Claims about the SIM-status parser *)

\* the response body: the line without its +CPIN: prefix
BodyOf(s) ==
    IF IsPrefix(CPIN_PREFIX, s) THEN From(s, Len(CPIN_PREFIX) + 1) ELSE s

\* the state of the first phrase, in the order READY, NOT READY,
\* NOT INSERTED, SIM PIN, PIN PUK, that is a prefix of body b
FirstPhraseState(b) ==
    IF IsPrefix(READY, b) THEN "GSM_SIM_STATE_READY"
    ELSE IF IsPrefix(NOT_READY, b) THEN "GSM_SIM_STATE_NOT_READY"
    ELSE IF IsPrefix(NOT_INSERTED, b) THEN "GSM_SIM_STATE_NOT_INSERTED"
    ELSE IF IsPrefix(SIM_PIN, b) THEN "GSM_SIM_STATE_PIN"
    ELSE IF IsPrefix(PIN_PUK, b) THEN "GSM_SIM_STATE_PUK"
    ELSE "GSM_SIM_STATE_NOT_READY"

\* C8: for every response body the resulting SIM state is the state of the
\* first phrase, in the order READY, NOT READY, NOT INSERTED, SIM PIN,
\* PIN PUK, that is a prefix of the body (a phrase followed by further
\* characters such as CR LF still matches), and NOT_READY when none is.
C8_PhraseMapping ==
    line.fn = "cpin" => gsm.sim_state = FirstPhraseState(BodyOf(line.s))

\* the calls of gsmi_get_sim_info among the collaborator calls of one parse
Fetches == {k \in 1..Len(evt) : evt[k].fn = "gsmi_get_sim_info"}

\* C9: one call of the parser triggers the fetch-SIM-info action exactly
\* once when the resulting state is READY and never when it is any other
\* state, and the state is written before the action is triggered (the
\* action finds the new state in the device state).
C9_FetchOnReady ==
    line.fn = "cpin" =>
        /\ Cardinality(Fetches) =
               IF gsm.sim_state = "GSM_SIM_STATE_READY" THEN 1 ELSE 0
        /\ \A k \in Fetches : evt[k].sim_state = "GSM_SIM_STATE_READY"

\* the body READY made the state READY and triggered one fetch, which is
\* the first collaborator call and precedes the event
C9_Witness ==
    /\ line.fn = "cpin" /\ line.s = READY /\ line.send_evt
    /\ gsm.sim_state = "GSM_SIM_STATE_READY"
    /\ Len(evt) = 2 /\ Fetches = {1}
    /\ evt[1].sim_state = "GSM_SIM_STATE_READY"

\* C22: over any sequence of SIM-status lines, the fetch-SIM-info action is
\* triggered only by a line that changes the SIM state from a non-READY
\* value to READY; a READY line received while the state is already READY
\* triggers no fetch.
C22_FetchOnTransition ==
    [][(line'.fn = "cpin" /\ \E k \in 1..Len(evt') : evt'[k].fn = "gsmi_get_sim_info")
          => (gsm.sim_state # "GSM_SIM_STATE_READY"
              /\ gsm'.sim_state = "GSM_SIM_STATE_READY")]_vars

----------------------------------------------------------------------------
(* The event-raising line parsers fed response lines: specification SpecEvt *)

CLCC_PREFIX == <<"+", "C", "L", "C", "C", ":", " ">>
CMGS_PREFIX == <<"+", "C", "M", "G", "S", ":", " ">>
CMTI_PREFIX == <<"+", "C", "M", "T", "I", ":", " ">>

\* t1,t2,...
RECURSIVE CommaList(_)
CommaList(ts) ==
    IF ts = <<>> THEN <<>>
    ELSE IF Len(ts) = 1 THEN ts[1]
    ELSE ts[1] \o <<",">> \o CommaList(Tail(ts))

\* <id>,<dir>,<stat>,<mode>,<mpty>,"<number>",<type>,"<name>"
ClccParts ==
    {[nums |-> nums, number |-> number, addr |-> <<"8", "1">>, name |-> name] :
        nums \in {<<<<"1">>, <<"0">>, <<"0">>, <<"0">>, <<"0">>>>,
                  <<<<"2">>, <<"1">>, <<"8">>, <<"1">>, <<"1">>>>},
        number \in {<<"1", "2">>, <<"1", "2", "8", "0">>},
        name \in {<<>>, <<"A", "B", "C">>}}

ClccBody(c) ==
    CommaList(<<CommaList(c.nums), Quoted(c.number), c.addr, Quoted(c.name)>>)
        \o <<CR, LF>>

\* message references: some fit the 16-bit local of gsmi_parse_cmgs, one
\* does not
CmgsNumbers == {<<"0">>, <<"8">>, <<"1", "2">>, <<"2", "0">>}

\* "<mem>",<index>
CmtiParts ==
    {[name |-> name, pos |-> pos, map |-> map] :
        name \in {SM, SM_P, XX, SMX}, pos \in {<<"1">>, <<"1", "2">>},
        map \in MemMaps}

CmtiBody(c) == Quoted(c.name) \o <<",">> \o c.pos \o <<CR, LF>>

\* a received line arrives with its prefix; a caller may also pass the body
WithPrefix(prefix, body) == {body, prefix \o body}

\* +CPIN: lines of a session
CpinEvtLines ==
    {CPIN_PREFIX \o READY \o <<CR, LF>>, CPIN_PREFIX \o SIM_PIN \o <<CR, LF>>}

InitEvt ==
    /\ pc = "line" /\ gsm = Gsm0 /\ evt = <<>> /\ line = NoLine
    /\ ScanIdle /\ TokIdle /\ ApiIdle

EvtCpin == ParseCpinOf(CpinEvtLines)

ParseClcc ==
    /\ pc = "line"
    /\ \E c \in ClccParts, send_evt \in BOOLEAN :
           \E s \in {CLCC_PREFIX \o ClccBody(c)} :
               \E r \in gsmi_parse_clcc(gsm, s, send_evt) :
                   LineParsed(r, "clcc", s, send_evt, c)

ParseCmgs ==
    /\ pc = "line"
    /\ \E ds \in CmgsNumbers, send_evt \in BOOLEAN :
           \E s \in WithPrefix(CMGS_PREFIX, ds \o <<CR, LF>>) :
               \E r \in gsmi_parse_cmgs(gsm, s, send_evt) :
                   LineParsed(r, "cmgs", s, send_evt, [num |-> ds])

ParseCmti ==
    /\ pc = "line"
    /\ \E c \in CmtiParts, send_evt \in BOOLEAN :
           \E s \in WithPrefix(CMTI_PREFIX, CmtiBody(c)) :
               \E r \in gsmi_parse_cmti(gsm, c.map, s, send_evt) :
                   LineParsed(r, "cmti", s, send_evt, c)

NextEvt == EvtCpin \/ ParseClcc \/ ParseCmgs \/ ParseCmti

SpecEvt == InitEvt /\ [][NextEvt]_vars

----------------------------------------------------------------------------
(* Claims about the event-raising parsers *)

\* the events raised by the most recent parser call
Events == {k \in 1..Len(evt) : evt[k].fn = "gsmi_send_cb"}

\* the event of each parser
EventOf(fn) ==
    CASE fn = "cpin" -> "GSM_CB_CPIN"
      [] fn = "clcc" -> "GSM_CB_CALL_CHANGED"
      [] fn = "cmgs" -> "GSM_CB_SMS_SENT"
      [] fn = "cmti" -> "GSM_CB_SMS_RECV"

\* what a call entry holds, its strings read as terminated strings
CallView(c) ==
    [id |-> c.id, dir |-> c.dir, state |-> c.state, type |-> c.type,
     is_multipart |-> c.is_multipart, number |-> CStr(c.number),
     addr_type |-> c.addr_type, name |-> CStr(c.name)]

\* what the +CLCC line built from parts c should leave in the call entry; a
\* string longer than its buffer is held cut to the buffer's size less the
\* terminator
ExpectedCall(c) ==
    [id |-> DecValue(c.nums[1]), dir |-> DecValue(c.nums[2]),
     state |-> DecValue(c.nums[3]), type |-> DecValue(c.nums[4]),
     is_multipart |-> DecValue(c.nums[5]),
     number |-> Take(c.number, CallNumberSize - 1),
     addr_type |-> DecValue(c.addr),
     name |-> Take(c.name, CallNameSize - 1)]

\* event e carries the values of the line parsed last: the new SIM state,
\* the device call entry, the sent index (when it fits the 16-bit local
\* that receives it), the memory selector and the position (when the name
\* is a table name listed before its prefixes, or no table name is a
\* prefix of it)
CarriesParsed(e) ==
    CASE line.fn = "cpin" ->
             /\ e.cb = CbCpin(FirstPhraseState(BodyOf(line.s)))
             /\ e.sim_state = e.cb.state
      [] line.fn = "clcc" ->
             /\ e.cb = CbCallChanged
             /\ CallView(e.call) = ExpectedCall(line.parts)
      [] line.fn = "cmgs" ->
             DecValue(line.parts.num) < 2^U16Bits =>
                 e.cb = CbSmsSent(DecValue(line.parts.num))
      [] line.fn = "cmti" ->
             LET c == line.parts
             IN  /\ (c.name \in MapNames(c.map) /\ ListedFirst(c.map, c.name)) =>
                        e.cb = CbSmsRecv(SelectorOf(c.map, c.name), DecValue(c.pos))
                 /\ (\A n \in MapNames(c.map) : ~IsPrefix(n, c.name)) =>
                        e.cb = CbSmsRecv(GSM_MEM_UNKNOWN, DecValue(c.pos))

\* C11: each of the SIM-status, call-status, SMS-sent-ack and
\* new-SMS-notification parsers raises its event exactly once per call when
\* the emit flag is set and never when it is clear, and the raised event
\* carries the values parsed by that same call.
C11_ConditionalEvent ==
    line.fn \in {"cpin", "clcc", "cmgs", "cmti"} =>
        /\ Cardinality(Events) = IF line.send_evt THEN 1 ELSE 0
        /\ \A k \in Events : evt[k].type = EventOf(line.fn) /\ CarriesParsed(evt[k])

\* +CMTI: "SM",12 parsed with the flag set, after a line that left another
\* payload, raised one SMS-received event carrying selector 2, position 12
C11_Witness ==
    /\ line.fn = "cmti" /\ line.send_evt
    /\ line.parts.name = SM /\ line.parts.pos = <<"1", "2">>
    /\ line.parts.map = <<Entry(SM_P, 0), Entry(SM, 2), Entry(ME, 3)>>
    /\ Len(evt) = 1 /\ evt[1].type = "GSM_CB_SMS_RECV"
    /\ evt[1].cb = CbSmsRecv(2, 12)
    /\ CStr(gsm.call.number) = <<"1", "2">>

\* C25: a parser called with the emit flag clear leaves the shared event
\* payload gsm.cb as it was; this for the SIM-status, call-status,
\* SMS-sent-ack and new-SMS-notification parsers alike.
C25_SuppressedFrame ==
    [][(line'.fn \in {"cpin", "clcc", "cmgs", "cmti"} /\ ~line'.send_evt)
          => gsm'.cb = gsm.cb]_vars

\* the three parsers that write the payload inside the if (send_evt) block
C25_FrameOfThree ==
    [][(line'.fn \in {"cpin", "clcc", "cmgs"} /\ ~line'.send_evt)
          => gsm'.cb = gsm.cb]_vars

----------------------------------------------------------------------------
(* Sequences of call-status lines, whole and cut short: specification      *)
(* SpecClcc                                                                 *)

\* lines that end before the last field
ClccShortBodies ==
    {<<"2">>, <<"1", ",", "0", ",", "8">>,
     <<"2", ",", "1", ",", "0", ",", "0", ",", "1">>,
     CommaList(<<<<"1", ",", "0", ",", "0", ",", "0", ",", "0">>,
                 Quoted(<<"8">>)>>),
     CommaList(<<<<"1", ",", "0", ",", "0", ",", "0", ",", "0">>,
                 Quoted(<<"8", "0">>), <<"1">>>>)}

\* whole lines with longer and shorter strings, and lines cut short, with
\* the line end and without it
ClccLines ==
    {CLCC_PREFIX \o ClccBody(c) : c \in ClccParts}
        \cup {CLCC_PREFIX \o b \o <<CR, LF>> : b \in ClccShortBodies}
        \cup {CLCC_PREFIX \o b : b \in ClccShortBodies}

\* the next call-status line
ParseClccLine ==
    /\ pc = "line"
    /\ \E s \in ClccLines, send_evt \in BOOLEAN :
           \E r \in gsmi_parse_clcc(gsm, s, send_evt) :
               LineParsed(r, "clcc", s, send_evt, <<>>)

NextClcc == ParseClccLine

SpecClcc == InitEvt /\ [][NextClcc]_vars

\* the call entries that parsing a line into a zeroed device state leaves
FromLineAlone(s) ==
    {CallView(r.gsm.call) : r \in gsmi_parse_clcc(Gsm0, s, FALSE)}

\* C23: after any sequence of call-status lines, every field of the device
\* call entry (id, direction, state, type, multi-party flag, number,
\* address type, name) equals the value parsed from the last line alone,
\* both strings are terminated inside their arrays, and no field keeps a
\* value or trailing characters from an earlier line, also when the last
\* line has shorter strings or fewer fields.
C23_OverwriteInPlace ==
    line.fn = "clcc" =>
        /\ CallView(gsm.call) \in FromLineAlone(line.s)
        /\ \E k \in 1..CallNumberSize : gsm.call.number[k] = NUL
        /\ \E k \in 1..CallNameSize : gsm.call.name[k] = NUL
        /\ Len(gsm.call.number) = CallNumberSize
        /\ Len(gsm.call.name) = CallNameSize

\* a line that ends after its first field, parsed after a whole line with
\* the name "ABC": the name is empty, the byte behind its terminator is
\* still the "B" of the earlier line
C23_Witness ==
    /\ line.fn = "clcc" /\ line.s = CLCC_PREFIX \o <<"2", CR, LF>>
    /\ gsm.call.id = 2 /\ gsm.call.dir = 0
    /\ CStr(gsm.call.name) = <<>>
    /\ gsm.call.name[1] = NUL /\ gsm.call.name[2] = "B"

----------------------------------------------------------------------------
(* The preferred-storage report parser: specification SpecCpms *)

CPMS_PREFIX == <<"+", "C", "P", "M", "S", ":", " ">>

\* the lists of a report: known names, and a name that is in no table
CpmsLists == {<<SM>>, <<SM, ME>>, <<ME, SM_P>>, <<XX>>}

\* ("n1","n2")
ParenList(ns) == <<"(">> \o QuotedList(ns) \o <<")">>

\* (list1),(list2),(list3)
CpmsParts ==
    {[lists |-> ls, map |-> map] : ls \in SeqsOf(CpmsLists, 3, 3), map \in MemMaps}

CpmsBody(c) ==
    CommaList(<<ParenList(c.lists[1]), ParenList(c.lists[2]),
                ParenList(c.lists[3])>>) \o <<CR, LF>>

\* what gsm.mem_list_sms holds when the report arrives: nothing (no report
\* yet), or the masks earlier reports left
CpmsSlots0 == {<<{}, {}, {}>>, <<{2}, {3}, {0}>>, <<{0, 2, 3}, {0, 2, 3}, {0, 2, 3}>>}

InitCpms ==
    /\ pc = "line" /\ evt = <<>> /\ line = NoLine
    /\ \E l \in CpmsSlots0 : gsm = [Gsm0 EXCEPT !.mem_list_sms = l]
    /\ ScanIdle /\ TokIdle /\ ApiIdle

\* one report line
ParseCpms ==
    /\ pc = "line" /\ line = NoLine
    /\ \E c \in CpmsParts :
           \E s \in WithPrefix(CPMS_PREFIX, CpmsBody(c)) :
               LineParsed(gsmi_parse_cpms(gsm, c.map, s), "cpms", s, FALSE, c)

NextCpms == ParseCpms

SpecCpms == InitCpms /\ [][NextCpms]_vars

\* the mask of a list of table names
MaskOf(map, ns) == {SelectorOf(map, ns[k]) : k \in 1..Len(ns)}

\* every name of every list of the report is a table name
AllKnown(c) ==
    \A i \in 1..3 : \A k \in 1..Len(c.lists[i]) :
        c.lists[i][k] \in MapNames(c.map)

\* C12: for a body of three parenthesized lists of known memory names
\* separated by single commas, with or without the 7-character +CPMS:
\* prefix, output slot k ends up holding exactly the mask of the k-th
\* list, whatever the slots held before, and the parser reports success.
C12_ThreeLists ==
    (line.fn = "cpms" /\ AllKnown(line.parts)) =>
        /\ line.res = 1
        /\ \A i \in 1..3 :
               gsm.mem_list_sms[i] = MaskOf(line.parts.map, line.parts.lists[i])

\* +CPMS: ("SM","ME"),("SM"),("ME","SM_P") with SM_P = 0, SM = 2, ME = 3
C12_Witness ==
    /\ line.fn = "cpms" /\ IsPrefix(CPMS_PREFIX, line.s)
    /\ line.parts.lists = <<<<SM, ME>>, <<SM>>, <<ME, SM_P>>>>
    /\ line.parts.map = <<Entry(SM_P, 0), Entry(SM, 2), Entry(ME, 3)>>
    /\ gsm.mem_list_sms = <<{2, 3}, {2}, {0, 3}>>
    /\ line.res = 1

----------------------------------------------------------------------------
(* Reports of fewer than three lists: specification SpecCpmsShort *)

\* no list, one list, two lists, and the whole reports for comparison
CpmsShortParts ==
    {[lists |-> ls, map |-> map, slots0 |-> l] :
        ls \in SeqsOf(CpmsLists, 0, 3), map \in MemMaps, l \in CpmsSlots0}

\* (list1),(list2) with as many lists as there are
CpmsShortBody(c) ==
    CommaList([k \in 1..Len(c.lists) |-> ParenList(c.lists[k])]) \o <<CR, LF>>

\* one report line; parts.slots0 keeps what the slots held when it arrived
ParseCpmsShort ==
    /\ pc = "line" /\ line = NoLine
    /\ \E c \in CpmsShortParts :
           /\ c.slots0 = gsm.mem_list_sms
           /\ \E s \in WithPrefix(CPMS_PREFIX, CpmsShortBody(c)) :
                  LineParsed(gsmi_parse_cpms(gsm, c.map, s), "cpms", s, FALSE, c)

NextCpmsShort == ParseCpmsShort

SpecCpmsShort == InitCpms /\ [][NextCpmsShort]_vars

\* C21: when the body holds fewer than three lists, the parser reports
\* failure and leaves the output slots behind the first missing list as
\* they were.
C21_FailurePath ==
    (line.fn = "cpms" /\ Len(line.parts.lists) < 3) =>
        /\ line.res = 0
        /\ \A i \in (Len(line.parts.lists) + 2)..3 :
               gsm.mem_list_sms[i] = line.parts.slots0[i]

----------------------------------------------------------------------------
(* The SMS API (src/src/gsm/gsm_sms.c) called from application threads:    *)
(* specification SpecApi                                                    *)

\* gsm_mem_t: the memories 0..GSM_MEM_END-1, then the two special selectors
GSM_MEM_END == 4
GSM_MEM_CURRENT == 5

\* strlen(text) <= 160
MaxTextLen == 160

MaxMbox == 1

\* what GSM_ASSERT makes the function return when its condition is false
GSM_ASSERT_failed == "gsmPARERR"

\* res = gsm.sms.enabled ? gsmOK : gsmERR
check_enabled(s) == IF s.enabled # 0 THEN "gsmOK" ELSE "gsmERR"

\* the condition of check_sms_mem
check_sms_mem(s, mem, can_curr) ==
    IF \/ mem < GSM_MEM_END /\ mem \in s.mem_available
       \/ can_curr /\ mem = GSM_MEM_CURRENT
    THEN "gsmOK"
    ELSE "gsmERRMEM"

\* the functions that start with CHECK_ENABLED()
Guarded ==
    {"gsm_sms_send", "gsm_sms_read", "gsm_sms_delete", "gsm_sms_list",
     "gsm_sms_set_preferred_storage"}

\* the conditions of the GSM_ASSERT lines that precede CHECK_ENABLED()
param_asserts(fn, a) ==
    CASE fn = "gsm_sms_send" -> ~a.null /\ (~a.null /\ a.text_len <= MaxTextLen)
      [] fn = "gsm_sms_read" -> ~a.null
      [] fn = "gsm_sms_list" -> ~a.null /\ a.etr > 0
      [] OTHER -> TRUE

\* cmd_def of the message a function builds
cmd_def(fn) ==
    CASE fn = "gsm_sms_enable" -> "GSM_CMD_SMS_ENABLE"
      [] fn = "gsm_sms_send" -> "GSM_CMD_CMGS"
      [] fn = "gsm_sms_read" -> "GSM_CMD_CMGR"
      [] fn = "gsm_sms_delete" -> "GSM_CMD_CMGD"
      [] fn = "gsm_sms_list" -> "GSM_CMD_CMGL"
      [] fn = "gsm_sms_set_preferred_storage" -> "GSM_CMD_CPMS_SET"

\* memset(entry, 0x00, sizeof(*entry)); entry->mem = mem; entry->pos = pos;
\* and  if (er != NULL) { *er = 0; } memset(entries, 0x00, ...);
clear_outputs(fn, a, out) ==
    CASE fn = "gsm_sms_read" -> [out EXCEPT !.entry = "cleared"]
      [] fn = "gsm_sms_list" ->
             [out EXCEPT !.entries = "cleared",
                         !.er = IF a.er_null THEN out.er ELSE "0"]
      [] OTHER -> out

\* the arguments of a call: null says that the pointer the function asserts
\* (num, entry, entries) is NULL
Args0 == [null |-> FALSE, text_len |-> 0, mems |-> <<>>, etr |-> 0, er_null |-> FALSE]

\* thread 2 switches the SMS functionality on and off and sends
CtlCalls ==
    {[fn |-> "gsm_sms_enable", args |-> Args0],
     [fn |-> "gsm_sms_disable", args |-> Args0],
     [fn |-> "gsm_sms_send", args |-> [Args0 EXCEPT !.text_len = MaxTextLen]]}

\* thread 1 uses the whole API
AppCalls ==
    CtlCalls
    \cup {[fn |-> "gsm_sms_send", args |-> [Args0 EXCEPT !.null = n, !.text_len = l]] :
            n \in BOOLEAN, l \in {MaxTextLen, MaxTextLen + 1}}
    \cup {[fn |-> "gsm_sms_read", args |-> [Args0 EXCEPT !.null = n, !.mems = <<m>>]] :
            n \in BOOLEAN, m \in {0, 1, GSM_MEM_CURRENT}}
    \cup {[fn |-> "gsm_sms_delete", args |-> [Args0 EXCEPT !.mems = <<m>>]] :
            m \in {0, 1}}
    \cup {[fn |-> "gsm_sms_list",
           args |-> [Args0 EXCEPT !.null = n, !.mems = <<0>>, !.etr = e, !.er_null = en]] :
            n \in BOOLEAN, e \in {0, 2}, en \in BOOLEAN}
    \cup {[fn |-> "gsm_sms_set_preferred_storage", args |-> [Args0 EXCEPT !.mems = ms]] :
            ms \in {<<0, 2, 0>>, <<0, 1, 0>>, <<GSM_MEM_CURRENT, 0, 0>>}}

ApiCalls(t) == IF t = 1 THEN AppCalls ELSE CtlCalls

InitApi ==
    /\ pc = "api" /\ ApiIdle
    /\ ScanIdle /\ TokIdle /\ LineIdle

\* thread t moves on to record r; nothing else changes unless said
Step(t, r) ==
    /\ thr' = [thr EXCEPT ![t] = [r EXCEPT !.off = r.off /\ sms.enabled = 0]]
    /\ UNCHANGED <<pc, scan_vars, tok_vars, line_vars>>

\* return res;
Return(r, res) == [r EXCEPT !.pc = "idle", !.res = res]

\* a thread calls an API function with fresh output objects
ApiCall(t) ==
    /\ pc = "api" /\ thr[t].pc = "idle"
    /\ \E c \in ApiCalls(t) :
           Step(t, [NoThread EXCEPT !.pc = "enter", !.fn = c.fn, !.args = c.args])
    /\ UNCHANGED <<sms, lock, mbox>>

\* from the entry of the function to its first blocking point
ApiEnter(t) ==
    LET r == thr[t]
    IN  /\ r.pc = "enter"
        /\ Step(t, IF r.fn = "gsm_sms_enable" THEN [r EXCEPT !.pc = "alloc"]
                   ELSE IF r.fn = "gsm_sms_disable" THEN [r EXCEPT !.pc = "dis_lock"]
                   ELSE IF ~param_asserts(r.fn, r.args)
                   THEN Return(r, GSM_ASSERT_failed)
                   ELSE [r EXCEPT !.pc = "en_lock"])
        /\ UNCHANGED <<sms, lock, mbox>>

\* GSM_CORE_PROTECT(): the thread waits until the lock is free and takes it
CoreProtect(t) ==
    LET r == thr[t]
    IN  /\ r.pc \in {"en_lock", "mem_lock", "dis_lock"}
        /\ lock = 0 /\ lock' = t
        /\ Step(t, [r EXCEPT !.pc = CASE r.pc = "en_lock" -> "en_read"
                                      [] r.pc = "mem_lock" -> "mem_read"
                                      [] r.pc = "dis_lock" -> "dis_write"])
        /\ UNCHANGED <<sms, mbox>>

\* check_enabled: res = gsm.sms.enabled ? gsmOK : gsmERR;
CheckEnabledRead(t) ==
    LET r == thr[t]
    IN  /\ r.pc = "en_read"
        /\ Step(t, [r EXCEPT !.pc = "en_unlock", !.loc = check_enabled(sms)])
        /\ UNCHANGED <<sms, lock, mbox>>

\* check_sms_mem(mem, 1): the test of the availability mask
CheckMemRead(t) ==
    LET r == thr[t]
    IN  /\ r.pc = "mem_read"
        /\ Step(t, [r EXCEPT !.pc = "mem_unlock",
                             !.loc = check_sms_mem(sms, r.args.mems[r.k + 1], TRUE)])
        /\ UNCHANGED <<sms, lock, mbox>>

\* gsm_sms_disable: gsm.sms.enabled = 0;
DisableWrite(t) ==
    LET r == thr[t]
    IN  /\ r.pc = "dis_write"
        /\ sms' = [sms EXCEPT !.enabled = 0]
        /\ Step(t, [r EXCEPT !.pc = "dis_unlock"])
        /\ UNCHANGED <<lock, mbox>>

\* a function that goes on whatever check_enabled returned
after_enabled_ignored(r) ==
    IF r.args.mems # <<>> THEN [r EXCEPT !.pc = "mem_lock"]
    ELSE [r EXCEPT !.pc = "alloc"]

\* CHECK_ENABLED(): where a function goes on after check_enabled returned loc
after_enabled(r) ==
    IF r.loc # "gsmOK" THEN Return(r, "gsmERRNOTENABLED")
    ELSE IF r.args.mems # <<>> THEN [r EXCEPT !.pc = "mem_lock"]
    ELSE [r EXCEPT !.pc = "alloc"]

\* where a function goes on after its k-th check_sms_mem returned loc
after_mem(r) ==
    IF r.loc # "gsmOK" THEN Return(r, GSM_ASSERT_failed)
    ELSE IF r.k < Len(r.args.mems) THEN [r EXCEPT !.pc = "mem_lock"]
    ELSE [r EXCEPT !.pc = "alloc"]

\* a check_sms_mem that returns without GSM_CORE_UNPROTECT()
unprotects_not_after_mem(at) == at # "mem_unlock"

\* each of check_enabled, check_sms_mem and gsm_sms_disable calls
\* GSM_CORE_UNPROTECT() on its one path from the access to the return
unprotects(at) == at \in {"en_unlock", "mem_unlock", "dis_unlock"}

\* GSM_CORE_UNPROTECT(), the return of the check function and the test of
\* its result by the caller
CoreUnprotect(t) ==
    LET r == thr[t]
    IN  /\ r.pc \in {"en_unlock", "mem_unlock", "dis_unlock"}
        /\ lock' = IF unprotects(r.pc) THEN 0 ELSE lock
        /\ Step(t, CASE r.pc = "en_unlock" ->
                            after_enabled([r EXCEPT !.chk = Append(r.chk, r.loc)])
                      [] r.pc = "mem_unlock" ->
                            after_mem([r EXCEPT !.chk = Append(r.chk, r.loc),
                                                !.k = r.k + 1])
                      [] r.pc = "dis_unlock" -> Return(r, "gsmOK"))
        /\ UNCHANGED <<sms, mbox>>

\* GSM_MSG_VAR_ALLOC(msg): the allocation fails and the function returns
\* gsmERRMEM, or it succeeds
Alloc(t) ==
    LET r == thr[t]
    IN  /\ r.pc = "alloc"
        /\ \E ok \in BOOLEAN :
               Step(t, IF ~ok THEN Return(r, "gsmERRMEM")
                       ELSE IF r.fn \in {"gsm_sms_read", "gsm_sms_list"}
                       THEN [r EXCEPT !.pc = "clear"]
                       ELSE [r EXCEPT !.pc = "submit"])
        /\ UNCHANGED <<sms, lock, mbox>>

\* the writes through the caller's output pointers
ClearOutputs(t) ==
    LET r == thr[t]
    IN  /\ r.pc = "clear"
        /\ Step(t, [r EXCEPT !.pc = "submit",
                             !.out = clear_outputs(r.fn, r.args, r.out)])
        /\ UNCHANGED <<sms, lock, mbox>>

\* gsmi_send_msg_to_producer_mbox: the message is put into the mailbox, or
\* the mailbox is full and the function fails
Submit(t) ==
    LET r == thr[t]
    IN  /\ r.pc = "submit"
        /\ IF Len(mbox) < MaxMbox
           THEN /\ mbox' = Append(mbox, cmd_def(r.fn))
                /\ Step(t, Return([r EXCEPT !.sub = r.sub + 1], "gsmOK"))
           ELSE /\ mbox' = mbox
                /\ Step(t, Return(r, "gsmERRMEM"))
        /\ UNCHANGED <<sms, lock>>

\* The processing thread takes the oldest message and executes it under the
\* core lock; executing GSM_CMD_SMS_ENABLE sets the enabled flag and the
\* memory availability mask.
Process ==
    /\ pc = "api" /\ mbox # <<>> /\ lock = 0
    /\ mbox' = Tail(mbox)
    /\ sms' = IF Head(mbox) = "GSM_CMD_SMS_ENABLE"
              THEN [enabled |-> 1, mem_available |-> {0, 2}]
              ELSE sms
    /\ UNCHANGED <<lock, thr, pc, scan_vars, tok_vars, line_vars>>

NextApi ==
    \/ \E t \in Threads : ApiCall(t)
    \/ \E t \in Threads : ApiEnter(t)
    \/ \E t \in Threads : CoreProtect(t)
    \/ \E t \in Threads : CheckEnabledRead(t)
    \/ \E t \in Threads : CheckMemRead(t)
    \/ \E t \in Threads : DisableWrite(t)
    \/ \E t \in Threads : CoreUnprotect(t)
    \/ \E t \in Threads : Alloc(t)
    \/ \E t \in Threads : ClearOutputs(t)
    \/ \E t \in Threads : Submit(t)
    \/ Process

SpecApi == InitApi /\ [][NextApi]_vars

----------------------------------------------------------------------------
(* Claims about the SMS API *)

\* thread t has returned from a call of one of the five guarded functions
Returned(t) == thr[t].pc = "idle" /\ thr[t].fn \in Guarded

\* the call of thread t has had no effect: nothing submitted, the caller's
\* output objects as the caller left them
NoEffect(t) == thr[t].sub = 0 /\ thr[t].out = NoOut

\* the call of thread t passed every precondition check: the parameter
\* assertions, the enabled check and each memory check
PassedChecks(t) ==
    /\ param_asserts(thr[t].fn, thr[t].args)
    /\ Len(thr[t].chk) = 1 + Len(thr[t].args.mems)
    /\ \A i \in 1..Len(thr[t].chk) : thr[t].chk[i] = "gsmOK"

\* the outputs are cleared only on a call that passes every check
ClearedOnlyWhenPassed ==
    \A t \in Threads : thr[t].out # NoOut => PassedChecks(t)

\* C14, as stated: when SMS is not enabled, each of the five functions,
\* called with non-null arguments, returns gsmERRNOTENABLED, submits no
\* message and leaves the caller's outputs unmodified; the outputs are
\* cleared only on a call that passes every precondition check.
C14_Original ==
    /\ \A t \in Threads :
           (Returned(t) /\ thr[t].off /\ ~thr[t].args.null) =>
               thr[t].res = "gsmERRNOTENABLED" /\ NoEffect(t)
    /\ ClearedOnlyWhenPassed

\* C14, amended: when SMS is not enabled, each of the five functions, called
\* with arguments that pass the parameter assertions placed before the
\* enabled check (non-null pointers, a text of at most 160 characters, a
\* positive entry count), returns gsmERRNOTENABLED; a call that fails one
\* of those assertions returns gsmPARERR; in both cases no message is
\* submitted and the caller's outputs are left unmodified; the outputs are
\* cleared only on a call that passes every precondition check.
C14_Rejection ==
    /\ \A t \in Threads :
           (Returned(t) /\ thr[t].off) =>
               /\ thr[t].res = IF param_asserts(thr[t].fn, thr[t].args)
                               THEN "gsmERRNOTENABLED" ELSE "gsmPARERR"
               /\ NoEffect(t)
    /\ \A t \in Threads :
           (Returned(t) /\ thr[t].res \in {"gsmERRNOTENABLED", "gsmPARERR"}) =>
               NoEffect(t)
    /\ ClearedOnlyWhenPassed

\* gsm_sms_list called with non-null arguments and a positive count while
\* SMS was never enabled: rejected, the entries and the count untouched
C14_Witness ==
    /\ Returned(1) /\ thr[1].fn = "gsm_sms_list" /\ thr[1].off
    /\ ~thr[1].args.null /\ thr[1].args.etr = 2 /\ ~thr[1].args.er_null
    /\ thr[1].res = "gsmERRNOTENABLED"
    /\ thr[1].chk = <<"gsmERR">> /\ NoEffect(1)

\* the program points of an access to gsm.sms: the read of the enabled
\* flag, the read of the availability mask, the write of the enabled flag
Accessing(t) == thr[t].pc \in {"en_read", "mem_read", "dis_write"}

\* the program points between an access and GSM_CORE_UNPROTECT()
Releasing(t) == thr[t].pc \in {"en_unlock", "mem_unlock", "dis_unlock"}

\* C15: every read or write of shared device state done by the SMS API
\* happens while the calling thread holds the core lock, every acquire is
\* matched by a release on every path, and no API function returns or
\* submits a message while still holding the lock.
C15_LockDiscipline ==
    \A t \in Threads :
        /\ Accessing(t) => lock = t
        /\ Releasing(t) => lock = t
        /\ ~(Accessing(t) \/ Releasing(t)) => lock # t

\* thread 1 reads the availability mask under the lock while thread 2, in
\* gsm_sms_disable, waits for the lock
C15_Witness ==
    /\ lock = 1 /\ thr[1].pc = "mem_read" /\ thr[1].fn = "gsm_sms_read"
    /\ thr[2].pc = "dis_lock" /\ sms.enabled = 1

\* thread t puts the message of a guarded function into the mailbox
Submits(t) ==
    /\ thr[t].pc = "submit" /\ thr[t].fn \in Guarded
    /\ thr'[t].sub = thr[t].sub + 1 /\ Len(mbox') = Len(mbox) + 1

\* C26: with one thread in gsm_sms_disable and another in gsm_sms_send (or
\* read, delete, list, set_preferred_storage), in every interleaving no SMS
\* command message is submitted to the producer mailbox at a moment when
\* the enabled flag is already cleared: the enabled check and the
\* submission are not separated by a completed disable.
C26_CheckThenSubmit ==
    [][\A t \in Threads : Submits(t) => sms.enabled # 0]_vars

====
